---- MODULE Spec2Model ----
(***************************************************************************)
(* A model of the NNAPI runtime's ExecutionBuilder (ExecutionBuilder.cpp): *)
(* the per-request Execution object, its argument bindings, the plan       *)
(* walker (asyncStartComputePartitioned) and the CPU fallback logic        *)
(* (cpuFallbackPartial / cpuFallbackFull).                                 *)
(***************************************************************************)
EXTENDS Integers, Sequences, FiniteSets, TLC

(***************************************************************************)
(* Bounds of the model.                                                    *)
(***************************************************************************)
\* Largest dimension value a caller or a device may name.
MaxDim == 2
\* Largest number of steps of a compound plan.
MaxSteps == 2
\* Largest number of compute() calls a behaviour makes.
MaxComputeCalls == 2
\* Width, in bits, the 64-bit timing values are scaled to: wide enough for
\* a small number of microseconds to be held in nanoseconds.
TimeBits == 12
\* Width, in bits, the 32-bit byte lengths are scaled to.
LengthBits == 2
\* Number of threads that call compute() on one Execution at the same time.
MaxThreads == 2

NULL == "nullptr"

\* UINT64_MAX is the all-ones value of the (scaled) timing width.
UINT64_MAX == 2^TimeBits - 1

\* Timing is in microseconds at the HAL level, in nanoseconds at the NDK
\* level.
kNanoPerMicro == 1000

kNoTiming == [timeOnDevice |-> UINT64_MAX, timeInDriver |-> UINT64_MAX]

\* Timings a device may report for one execution: none, small ones, and the
\* largest value on the device that is not the "not measured" one.
DeviceTimings ==
    { kNoTiming,
      [timeOnDevice |-> 1, timeInDriver |-> 2],
      [timeOnDevice |-> UINT64_MAX - 1, timeInDriver |-> 2] }

(***************************************************************************)
(* The model the Execution was compiled from: declared operands.           *)
(***************************************************************************)
TensorOperand(dims) == [type |-> "TENSOR_FLOAT32", dimensions |-> dims]

\* One input, fully specified; two outputs, the first with an unspecified
\* dimension, the second fully specified.
InputOperands == << TensorOperand(<<2>>) >>
OutputOperands == << TensorOperand(<<0>>), TensorOperand(<<2>>) >>

inputCount == Len(InputOperands)
outputCount == Len(OutputOperands)

\* 0-based operand lookup, as ModelBuilder::getInputOperand(index).
getInputOperand(index) == InputOperands[index + 1]
getOutputOperand(index) == OutputOperands[index + 1]

(***************************************************************************)
(* Dimensions and shapes.                                                  *)
(***************************************************************************)
\* Dimension vectors of unknown rank (empty) or of rank one.
DimVectors == {<<>>} \cup {<<d>> : d \in 0..MaxDim}

OutputShapes == [dimensions : DimVectors, isSufficient : BOOLEAN]

isTensorType(type) == type = "TENSOR_FLOAT32"

tensorHasUnspecifiedDimensions(operand) ==
    \/ Len(operand.dimensions) = 0
    \/ \E i \in 1..Len(operand.dimensions) : operand.dimensions[i] = 0

\* validateOperandType: a tensor type with unspecified dimensions is valid
\* only where unspecified dimensions are allowed.
validateOperandType(newType, allowUnspecified) ==
    IF allowUnspecified \/ ~tensorHasUnspecifiedDimensions(newType)
    THEN "NO_ERROR" ELSE "BAD_DATA"

\* The absent (nullptr) ANeuralNetworksOperandType.
NullType == [type |-> NULL, dimensions |-> <<>>]

\* A checkDimensionInfo that compares the dimensions both vectors have and
\* never the two dimension counts.
checkDimensionInfoAnyCount(operand, newType, allowUnspecified) ==
    IF newType # NullType
    THEN IF validateOperandType(newType, allowUnspecified) # "NO_ERROR" THEN FALSE
         ELSE \A i \in 1..Len(newType.dimensions) :
                 i <= Len(operand.dimensions)
                    => ~(operand.dimensions[i] # newType.dimensions[i]
                         /\ operand.dimensions[i] # 0)
    ELSE ~(~allowUnspecified /\ isTensorType(operand.type)
           /\ tensorHasUnspecifiedDimensions(operand))

\* A checkDimensionInfo that lets an override put 0 where the operand's
\* dimension is fixed.
checkDimensionInfoZeroOverrides(operand, newType, allowUnspecified) ==
    IF newType # NullType
    THEN IF validateOperandType(newType, allowUnspecified) # "NO_ERROR" THEN FALSE
         ELSE IF Len(operand.dimensions) = 0 THEN TRUE
         ELSE IF Len(operand.dimensions) # Len(newType.dimensions) THEN FALSE
         ELSE \A i \in 1..Len(newType.dimensions) :
                 ~(operand.dimensions[i] # newType.dimensions[i]
                   /\ operand.dimensions[i] # 0 /\ newType.dimensions[i] # 0)
    ELSE ~(~allowUnspecified /\ isTensorType(operand.type)
           /\ tensorHasUnspecifiedDimensions(operand))

checkDimensionInfo(operand, newType, allowUnspecified) ==
    IF newType # NullType
    THEN IF validateOperandType(newType, allowUnspecified) # "NO_ERROR" THEN FALSE
         ELSE IF Len(operand.dimensions) = 0 THEN TRUE
         ELSE IF Len(operand.dimensions) # Len(newType.dimensions) THEN FALSE
         ELSE \A i \in 1..Len(newType.dimensions) :
                 ~(operand.dimensions[i] # newType.dimensions[i]
                   /\ operand.dimensions[i] # 0)
    ELSE ~(~allowUnspecified /\ isTensorType(operand.type)
           /\ tensorHasUnspecifiedDimensions(operand))

\* The four binding calls.
BindCalls == {"setInput", "setInputFromMemory", "setOutput", "setOutputFromMemory"}

\* A binding call that never allows unspecified dimensions.
allowUnspecifiedNever(call, buffer) == FALSE

\* A binding call that allows unspecified dimensions unless it has a buffer.
allowUnspecifiedWithoutBuffer(call, buffer) == buffer = NULL

\* The allowUnspecified argument with which each binding call calls
\* checkDimensionInfo; buffer is the pointer given to setInput / setOutput
\* (the pool-backed calls have none).
allowUnspecified(call, buffer) ==
    CASE call = "setInput" -> buffer = NULL
      [] call = "setInputFromMemory" -> FALSE
      [] call = "setOutput" -> TRUE
      [] call = "setOutputFromMemory" -> TRUE

(***************************************************************************)
(* ModelArgumentInfo and the memory pool table.                            *)
(***************************************************************************)
EmptyArgument ==
    [state |-> "UNSPECIFIED", dimensions |-> <<>>, buffer |-> NULL,
     poolIndex |-> 0, offset |-> 0, length |-> 0, isSufficient |-> TRUE]

\* ModelArgumentInfo::updateDimensionInfo
updateDimensionInfo(operand, newType) ==
    IF newType = NullType THEN operand.dimensions ELSE newType.dimensions

\* ModelArgumentInfo::setFromPointer
setFromPointer(arg, operand, type, data, length) ==
    IF data = NULL
    THEN [arg EXCEPT !.state = "HAS_NO_VALUE", !.buffer = data,
                     !.poolIndex = 0, !.offset = 0, !.length = length]
    ELSE [arg EXCEPT !.state = "POINTER",
                     !.dimensions = updateDimensionInfo(operand, type),
                     !.buffer = data,
                     !.poolIndex = 0, !.offset = 0, !.length = length]

\* ModelArgumentInfo::setFromMemory
setFromMemory(arg, operand, type, poolIndex, offset, length) ==
    [arg EXCEPT !.state = "MEMORY",
                !.dimensions = updateDimensionInfo(operand, type),
                !.buffer = NULL,
                !.poolIndex = poolIndex, !.offset = offset, !.length = length]

\* Memory::validateSize
validateSize(memory, offset, length) == offset + length <= memory.size

\* 0-based index of an element known to be in the table.
IndexOf(table, memory) ==
    (CHOOSE i \in 1..Len(table) : table[i] = memory) - 1

\* MemoryTracker::add: the table after the add, and the index returned.
MemoriesAfterAdd(table, memory) ==
    IF \E i \in 1..Len(table) : table[i] = memory THEN table
    ELSE Append(table, memory)

MemoriesAddIndex(table, memory) == IndexOf(MemoriesAfterAdd(table, memory), memory)

(***************************************************************************)
(* StepExecutor: the bindings and the pool table an executor gets from the *)
(* Execution.                                                              *)
(***************************************************************************)
\* A mapInputsAndOutputsTrivially that leaves the executor's pool table empty.
mapInputsAndOutputsWithoutMemories(builderInputs, builderOutputs, builderMemories) ==
    [mInputs |-> builderInputs, mOutputs |-> builderOutputs, mMemories |-> <<>>]

\* StepExecutor::mapInputsAndOutputsTrivially: the executor's mInputs,
\* mOutputs and mMemories.
mapInputsAndOutputsTrivially(builderInputs, builderOutputs, builderMemories) ==
    [mInputs |-> builderInputs, mOutputs |-> builderOutputs,
     mMemories |-> builderMemories]

\* A mapInputOrOutput that copies the binding and registers nothing.
mapInputOrOutputKeepIndex(builderInputOrOutput, builderMemories, executorMemories) ==
    [executorInputOrOutput |-> builderInputOrOutput, mMemories |-> executorMemories]

\* StepExecutor::mapInputOrOutput: the executor's binding and the
\* executor's pool table afterwards.
mapInputOrOutput(builderInputOrOutput, builderMemories, executorMemories) ==
    IF builderInputOrOutput.state = "MEMORY"
    THEN LET memory == builderMemories[builderInputOrOutput.poolIndex + 1]
         IN [executorInputOrOutput |->
                 [builderInputOrOutput EXCEPT
                     !.poolIndex = MemoriesAddIndex(executorMemories, memory)],
             mMemories |-> MemoriesAfterAdd(executorMemories, memory)]
    ELSE [executorInputOrOutput |-> builderInputOrOutput,
          mMemories |-> executorMemories]

(***************************************************************************)
(* Result codes and error statuses.                                        *)
(***************************************************************************)
\* Result codes with which the plan or a device call may fail.
FailureCodes == {"OP_FAILED", "UNAVAILABLE_DEVICE"}

\* Result codes plan->next, plan->fallback and prepareModel may return.
PlanResults == {"NO_ERROR"} \cup FailureCodes

\* Result codes PreparedModel::execute may return.
ExecuteCodes == {"NO_ERROR", "OUTPUT_INSUFFICIENT_SIZE"} \cup FailureCodes

convertResultCodeToErrorStatus(n) ==
    CASE n = "NO_ERROR" -> "NONE"
      [] n = "BAD_DATA" -> "INVALID_ARGUMENT"
      [] n = "OUTPUT_INSUFFICIENT_SIZE" -> "OUTPUT_INSUFFICIENT_SIZE"
      [] n = "UNAVAILABLE_DEVICE" -> "DEVICE_UNAVAILABLE"
      [] OTHER -> "GENERAL_FAILURE"

convertErrorStatusToResultCode(status) ==
    CASE status = "NONE" -> "NO_ERROR"
      [] status = "INVALID_ARGUMENT" -> "BAD_DATA"
      [] status = "OUTPUT_INSUFFICIENT_SIZE" -> "OUTPUT_INSUFFICIENT_SIZE"
      [] status = "DEVICE_UNAVAILABLE" -> "UNAVAILABLE_DEVICE"
      [] OTHER -> "OP_FAILED"

(***************************************************************************)
(* Compilations and plans.                                                 *)
(***************************************************************************)
\* CompilationBuilder: how the request was compiled.
Compilations ==
    { [mExplicitDeviceList |-> TRUE,  numDevices |-> 1, allowsFallback |-> FALSE],
      [mExplicitDeviceList |-> FALSE, numDevices |-> 2, allowsFallback |-> FALSE],
      [mExplicitDeviceList |-> FALSE, numDevices |-> 2, allowsFallback |-> TRUE] }

Devices == {"cpu", "accel"}

\* A step of a compound plan: its device and, for each output of its
\* submodel, the 0-based index of the main model's output it produces
\* (ExecutionStep::getOutputIndexSubModelToFromModel).  Step i of a compound
\* plan produces main output (i - 1) mod outputCount.
CompoundStep(i, device) ==
    [device |-> device, indexMapping |-> << (i - 1) % outputCount >>]

\* A simple plan has one step and no ExecutionStep (mExecutionStep = nullptr).
SimplePlans ==
    { [simple |-> TRUE, steps |-> << [device |-> d, indexMapping |-> <<>>] >>]
        : d \in Devices }

CompoundPlans ==
    { [simple |-> FALSE, steps |-> [i \in 1..n |-> CompoundStep(i, devs[i])]]
        : n \in 2..MaxSteps,
          devs \in [1..MaxSteps -> Devices] }

Plans == SimplePlans \cup CompoundPlans

\* ExecutionPlan::isSimple
isSimple(p) == p.simple

\* ExecutionPlan::isSimpleCpu
isSimpleCpu(p) == p.simple /\ p.steps[1].device = "cpu"

(***************************************************************************)
(* State.                                                                  *)
(***************************************************************************)
VARIABLES
    mCompilation,      \* the compilation the Execution was created from
    mPlan,             \* the compilation's execution plan
    mInputs, mOutputs, \* ModelArgumentInfo per declared input / output
    mMemories,         \* the Execution's memory pool table
    mStarted, mFinished,
    mMeasureTiming, mTiming,
    walker,            \* asyncStartComputePartitioned: locals and position
    executionCallback, \* the completion channel handed to the walker
    caller,            \* the calling thread: "ready" or blocked in compute
    ret,               \* what the most recent API call returned
    log,               \* history: what the walker has done, in order
    computeCalls,      \* history: number of compute() calls made
    finishCalls,       \* history: number of times finish() was entered
    probe,             \* a helper function applied on its own: arguments, result
    threads            \* threads inside compute() at the same time: position, result

vars == << mCompilation, mPlan, mInputs, mOutputs, mMemories, mStarted,
           mFinished, mMeasureTiming, mTiming, walker, executionCallback,
           caller, ret, log, computeCalls, finishCalls, probe, threads >>

execVars == << mInputs, mOutputs, mMemories, mStarted, mFinished,
               mMeasureTiming, mTiming >>
walkVars == << walker, executionCallback, log, finishCalls >>
\* What no call on the Execution made by the one calling thread changes.
constVars == << mCompilation, mPlan, probe, threads >>

IdleWalker ==
    [pc |-> "idle", allowFallback |-> FALSE, outputShapes |-> <<>>,
     timing |-> kNoTiming, nextStepIndex |-> 0, stepOutputShapes |-> <<>>]

NoCallback ==
    [notified |-> 0, status |-> "NONE", outputShapes |-> <<>>,
     timing |-> kNoTiming]

NoReturn == [op |-> "none", n |-> "NO_ERROR", out |-> <<>>]

NoProbe == [op |-> "none"]

\* Threads that call compute() on the same Execution at the same time.
Threads == 1..MaxThreads

\* No thread has entered compute().
ReadyThreads == [t \in Threads |-> [pc |-> "ready", n |-> "NONE", walked |-> FALSE]]

Return(op, n) == [op |-> op, n |-> n, out |-> <<>>]
ReturnOut(op, n, out) == [op |-> op, n |-> n, out |-> out]

\* ExecutionBuilder::ExecutionBuilder: the Execution as constructed.
Constructed ==
    /\ mInputs = [i \in 1..inputCount |-> EmptyArgument]
    /\ mOutputs = [i \in 1..outputCount |-> EmptyArgument]
    /\ mMemories = <<>>
    /\ mStarted = FALSE
    /\ mFinished = FALSE
    /\ mMeasureTiming = FALSE
    /\ mTiming = kNoTiming
    /\ walker = IdleWalker
    /\ executionCallback = NoCallback
    /\ caller = "ready"
    /\ ret = NoReturn
    /\ log = <<>>
    /\ computeCalls = 0
    /\ finishCalls = 0
    /\ probe = NoProbe
    /\ threads = ReadyThreads

\* A compilation against one device has a simple plan.
Compiled(compilation, p) == compilation.numDevices = 1 => p.simple

\* The plans of the lifecycle specification: the simple ones, and the
\* compound plan that runs its first step on an accelerator and the others
\* on the CPU.
LifecyclePlans ==
    SimplePlans \cup
    { p \in CompoundPlans :
        /\ Len(p.steps) = 2
        /\ p.steps[1].device = "accel"
        /\ p.steps[2].device = "cpu" }

Init ==
    /\ mCompilation \in Compilations
    /\ mPlan \in LifecyclePlans
    /\ Compiled(mCompilation, mPlan)
    /\ Constructed

(***************************************************************************)
(* Arguments callers pass to the binding calls.                            *)
(***************************************************************************)
\* 0-based slot indexes, one past the end included.
InputIndexes == 0..inputCount
OutputIndexes == 0..outputCount

\* Type overrides: none, or a rank-one tensor type.
TypeOverrides ==
    {NullType} \cup {TensorOperand(<<d>>) : d \in 0..MaxDim}

\* The largest byte length a pointer binding can hold: 0xFFFFFFFF, the
\* all-ones value of the (scaled) width of uint32_t.
kMaxLength == 2^LengthBits - 1

(***************************************************************************)
(* The binding calls.  Each is enabled whenever the calling thread is not  *)
(* blocked inside compute().  The ...Check operators are the checks a call *)
(* makes before it touches the binding: the code it fails with, or         *)
(* NO_ERROR.                                                               *)
(***************************************************************************)
\* A setInput that checks the index before the state.
setInputCheckIndexFirst(index, type, buffer, length) ==
    IF index >= Len(mInputs) THEN "BAD_DATA"
    ELSE IF mStarted THEN "BAD_STATE"
    ELSE IF ~checkDimensionInfo(getInputOperand(index), type, buffer = NULL)
    THEN "BAD_DATA"
    ELSE IF length > kMaxLength THEN "BAD_DATA"
    ELSE "NO_ERROR"

setInputCheck(index, type, buffer, length) ==
    IF mStarted THEN "BAD_STATE"
    ELSE IF index >= Len(mInputs) THEN "BAD_DATA"
    ELSE IF ~checkDimensionInfo(getInputOperand(index), type, buffer = NULL)
    THEN "BAD_DATA"
    ELSE IF length > kMaxLength THEN "BAD_DATA"
    ELSE "NO_ERROR"

setInput(index, type, buffer, length) ==
    /\ caller = "ready"
    /\ ret' = Return("setInput", setInputCheck(index, type, buffer, length))
    /\ IF setInputCheck(index, type, buffer, length) = "NO_ERROR"
       THEN mInputs' = [mInputs EXCEPT ![index + 1] =
                setFromPointer(@, getInputOperand(index), type, buffer, length)]
       ELSE UNCHANGED mInputs
    /\ UNCHANGED << mOutputs, mMemories, mStarted, mFinished, mMeasureTiming,
                    mTiming, walkVars, constVars, caller, computeCalls >>

\* setInputFromMemoryCheck answering BAD_STATE for an index out of range.
setInputFromMemoryCheckIndexAsState(index, type, memory, offset, length) ==
    IF mStarted \/ index >= Len(mInputs) THEN "BAD_STATE"
    ELSE IF ~checkDimensionInfo(getInputOperand(index), type, FALSE)
    THEN "BAD_DATA"
    ELSE IF memory.name = "hardware_buffer" /\ (offset # 0 \/ length # 0)
    THEN "BAD_DATA"
    ELSE IF ~validateSize(memory, offset, length) THEN "BAD_DATA"
    ELSE "NO_ERROR"

setInputFromMemoryCheck(index, type, memory, offset, length) ==
    IF mStarted THEN "BAD_STATE"
    ELSE IF index >= Len(mInputs) THEN "BAD_DATA"
    ELSE IF ~checkDimensionInfo(getInputOperand(index), type, FALSE)
    THEN "BAD_DATA"
    ELSE IF memory.name = "hardware_buffer" /\ (offset # 0 \/ length # 0)
    THEN "BAD_DATA"
    ELSE IF ~validateSize(memory, offset, length) THEN "BAD_DATA"
    ELSE "NO_ERROR"

setInputFromMemory(index, type, memory, offset, length) ==
    /\ caller = "ready"
    /\ ret' = Return("setInputFromMemory",
                     setInputFromMemoryCheck(index, type, memory, offset, length))
    /\ IF setInputFromMemoryCheck(index, type, memory, offset, length) = "NO_ERROR"
       THEN /\ mMemories' = MemoriesAfterAdd(mMemories, memory)
            /\ mInputs' = [mInputs EXCEPT ![index + 1] =
                    setFromMemory(@, getInputOperand(index), type,
                                  MemoriesAddIndex(mMemories, memory), offset, length)]
       ELSE UNCHANGED << mInputs, mMemories >>
    /\ UNCHANGED << mOutputs, mStarted, mFinished, mMeasureTiming,
                    mTiming, walkVars, constVars, caller, computeCalls >>

\* setOutputCheck with the index check made before the state check.
setOutputCheckIndexFirst(index, type, buffer, length) ==
    IF index >= Len(mOutputs) THEN "BAD_DATA"
    ELSE IF mStarted THEN "BAD_STATE"
    ELSE IF ~checkDimensionInfo(getOutputOperand(index), type, TRUE)
    THEN "BAD_DATA"
    ELSE IF length > kMaxLength THEN "BAD_DATA"
    ELSE "NO_ERROR"

setOutputCheck(index, type, buffer, length) ==
    IF mStarted THEN "BAD_STATE"
    ELSE IF index >= Len(mOutputs) THEN "BAD_DATA"
    ELSE IF ~checkDimensionInfo(getOutputOperand(index), type, TRUE)
    THEN "BAD_DATA"
    ELSE IF length > kMaxLength THEN "BAD_DATA"
    ELSE "NO_ERROR"

setOutput(index, type, buffer, length) ==
    /\ caller = "ready"
    /\ ret' = Return("setOutput", setOutputCheck(index, type, buffer, length))
    /\ IF setOutputCheck(index, type, buffer, length) = "NO_ERROR"
       THEN mOutputs' = [mOutputs EXCEPT ![index + 1] =
                setFromPointer(@, getOutputOperand(index), type, buffer, length)]
       ELSE UNCHANGED mOutputs
    /\ UNCHANGED << mInputs, mMemories, mStarted, mFinished, mMeasureTiming,
                    mTiming, walkVars, constVars, caller, computeCalls >>

\* A setOutputFromMemory that lets a hardware buffer be sub-ranged.
setOutputFromMemoryCheckSubRanged(index, type, memory, offset, length) ==
    IF mStarted THEN "BAD_STATE"
    ELSE IF index >= Len(mOutputs) THEN "BAD_DATA"
    ELSE IF ~checkDimensionInfo(getOutputOperand(index), type, TRUE)
    THEN "BAD_DATA"
    ELSE IF ~validateSize(memory, offset, length) THEN "BAD_DATA"
    ELSE "NO_ERROR"

setOutputFromMemoryCheck(index, type, memory, offset, length) ==
    IF mStarted THEN "BAD_STATE"
    ELSE IF index >= Len(mOutputs) THEN "BAD_DATA"
    ELSE IF ~checkDimensionInfo(getOutputOperand(index), type, TRUE)
    THEN "BAD_DATA"
    ELSE IF memory.name = "hardware_buffer" /\ (offset # 0 \/ length # 0)
    THEN "BAD_DATA"
    ELSE IF ~validateSize(memory, offset, length) THEN "BAD_DATA"
    ELSE "NO_ERROR"

\* A setOutputFromMemory that registers the pool before it checks the range.
setOutputFromMemoryRegistersFirst(index, type, memory, offset, length) ==
    /\ caller = "ready"
    /\ ret' = Return("setOutputFromMemory",
                     setOutputFromMemoryCheck(index, type, memory, offset, length))
    /\ mMemories' = IF mStarted THEN mMemories
                    ELSE MemoriesAfterAdd(mMemories, memory)
    /\ IF setOutputFromMemoryCheck(index, type, memory, offset, length) = "NO_ERROR"
       THEN mOutputs' = [mOutputs EXCEPT ![index + 1] =
                    setFromMemory(@, getOutputOperand(index), type,
                                  MemoriesAddIndex(mMemories, memory), offset, length)]
       ELSE UNCHANGED mOutputs
    /\ UNCHANGED << mInputs, mStarted, mFinished, mMeasureTiming,
                    mTiming, walkVars, constVars, caller, computeCalls >>

setOutputFromMemory(index, type, memory, offset, length) ==
    /\ caller = "ready"
    /\ ret' = Return("setOutputFromMemory",
                     setOutputFromMemoryCheck(index, type, memory, offset, length))
    /\ IF setOutputFromMemoryCheck(index, type, memory, offset, length) = "NO_ERROR"
       THEN /\ mMemories' = MemoriesAfterAdd(mMemories, memory)
            /\ mOutputs' = [mOutputs EXCEPT ![index + 1] =
                    setFromMemory(@, getOutputOperand(index), type,
                                  MemoriesAddIndex(mMemories, memory), offset, length)]
       ELSE UNCHANGED << mOutputs, mMemories >>
    /\ UNCHANGED << mInputs, mStarted, mFinished, mMeasureTiming,
                    mTiming, walkVars, constVars, caller, computeCalls >>

\* A setMeasureTiming that looks at the state first and at the devices of
\* the compilation second.
setMeasureTimingStateFirst(measure) ==
    /\ caller = "ready"
    /\ IF mStarted
       THEN /\ ret' = Return("setMeasureTiming", "BAD_STATE")
            /\ UNCHANGED mMeasureTiming
       ELSE IF ~mCompilation.mExplicitDeviceList \/ mCompilation.numDevices # 1
       THEN /\ ret' = Return("setMeasureTiming", "BAD_DATA")
            /\ UNCHANGED mMeasureTiming
       ELSE /\ mMeasureTiming' = measure
            /\ ret' = Return("setMeasureTiming", "NO_ERROR")
    /\ UNCHANGED << mInputs, mOutputs, mMemories, mStarted, mFinished,
                    mTiming, walkVars, constVars, caller, computeCalls >>

setMeasureTiming(measure) ==
    /\ caller = "ready"
    /\ IF ~mCompilation.mExplicitDeviceList \/ mCompilation.numDevices # 1
       THEN /\ ret' = Return("setMeasureTiming", "BAD_DATA")
            /\ UNCHANGED mMeasureTiming
       ELSE IF mStarted
       THEN /\ ret' = Return("setMeasureTiming", "BAD_STATE")
            /\ UNCHANGED mMeasureTiming
       ELSE /\ mMeasureTiming' = measure
            /\ ret' = Return("setMeasureTiming", "NO_ERROR")
    /\ UNCHANGED << mInputs, mOutputs, mMemories, mStarted, mFinished,
                    mTiming, walkVars, constVars, caller, computeCalls >>

(***************************************************************************)
(* The result queries.  ret.out is what the call wrote through its output  *)
(* parameter: nothing, or one value.                                       *)
(***************************************************************************)
DurationCodes == {"DURATION_ON_HARDWARE", "DURATION_IN_DRIVER"}

\* kNanoPerMicro * microDuration in uint64_t arithmetic.
\* A conversion that multiplies the "not measured" value like any other.
NanoDurationScaled(microDuration) ==
    (kNanoPerMicro * microDuration) % (2^TimeBits)

NanoDuration(microDuration) ==
    IF microDuration = UINT64_MAX THEN UINT64_MAX
    ELSE (kNanoPerMicro * microDuration) % (2^TimeBits)

getDuration(durationCode) ==
    /\ caller = "ready"
    /\ IF ~mFinished
       THEN ret' = ReturnOut("getDuration", "BAD_STATE", <<>>)
       ELSE IF ~mMeasureTiming
       THEN ret' = ReturnOut("getDuration", "BAD_STATE", << UINT64_MAX >>)
       ELSE ret' = ReturnOut("getDuration", "NO_ERROR",
                     << NanoDuration(IF durationCode = "DURATION_ON_HARDWARE"
                                     THEN mTiming.timeOnDevice
                                     ELSE mTiming.timeInDriver) >>)
    /\ UNCHANGED << execVars, walkVars, constVars, caller, computeCalls >>

getOutputOperandDimensions(index) ==
    /\ caller = "ready"
    /\ IF ~mFinished
       THEN ret' = ReturnOut("getOutputOperandDimensions", "BAD_STATE", <<>>)
       ELSE IF index >= Len(mOutputs)
       THEN ret' = ReturnOut("getOutputOperandDimensions", "BAD_DATA", <<>>)
       ELSE IF Len(mOutputs[index + 1].dimensions) = 0
       THEN ret' = ReturnOut("getOutputOperandDimensions", "BAD_DATA", <<>>)
       ELSE ret' = ReturnOut("getOutputOperandDimensions",
                             IF mOutputs[index + 1].isSufficient THEN "NO_ERROR"
                             ELSE "OUTPUT_INSUFFICIENT_SIZE",
                             << mOutputs[index + 1].dimensions >>)
    /\ UNCHANGED << execVars, walkVars, constVars, caller, computeCalls >>

\* A getOutputOperandRank that does not look at mFinished.
getOutputOperandRankAnyTime(index) ==
    /\ caller = "ready"
    /\ IF index >= Len(mOutputs)
       THEN ret' = ReturnOut("getOutputOperandRank", "BAD_DATA", <<>>)
       ELSE ret' = ReturnOut("getOutputOperandRank",
                             IF mOutputs[index + 1].isSufficient THEN "NO_ERROR"
                             ELSE "OUTPUT_INSUFFICIENT_SIZE",
                             << Len(mOutputs[index + 1].dimensions) >>)
    /\ UNCHANGED << execVars, walkVars, constVars, caller, computeCalls >>

getOutputOperandRank(index) ==
    /\ caller = "ready"
    /\ IF ~mFinished
       THEN ret' = ReturnOut("getOutputOperandRank", "BAD_STATE", <<>>)
       ELSE IF index >= Len(mOutputs)
       THEN ret' = ReturnOut("getOutputOperandRank", "BAD_DATA", <<>>)
       ELSE ret' = ReturnOut("getOutputOperandRank",
                             IF mOutputs[index + 1].isSufficient THEN "NO_ERROR"
                             ELSE "OUTPUT_INSUFFICIENT_SIZE",
                             << Len(mOutputs[index + 1].dimensions) >>)
    /\ UNCHANGED << execVars, walkVars, constVars, caller, computeCalls >>

(***************************************************************************)
(* Output shape reconciliation.                                            *)
(***************************************************************************)
\* ExecutionBuilder::initializeOutputShapes
\* An initializeOutputShapes that forgets the bound dimensions.
initializeOutputShapesUnknown(outputs) ==
    [i \in 1..Len(outputs) |-> [dimensions |-> <<>>, isSufficient |-> TRUE]]

initializeOutputShapes(outputs) ==
    [i \in 1..Len(outputs) |->
        [dimensions |-> outputs[i].dimensions, isSufficient |-> TRUE]]

\* An isUpdatable that compares the ranks only.
isUpdatableSameRank(to, from) ==
    IF Len(to) = 0 THEN TRUE ELSE Len(to) = Len(from)

\* Whether dimensions "from" may replace dimensions "to".
isUpdatable(to, from) ==
    IF Len(to) = 0 THEN TRUE
    ELSE IF Len(to) # Len(from) THEN FALSE
    ELSE \A i \in 1..Len(to) : to[i] = from[i] \/ to[i] = 0

\* ExecutionBuilder::updateOutputShapes: whether it succeeds, and mOutputs
\* after it.
updateOutputShapesOk(outputs, outputShapes) ==
    IF Len(outputShapes) = 0 THEN TRUE
    ELSE IF Len(outputShapes) # Len(outputs) THEN FALSE
    ELSE \A i \in 1..Len(outputShapes) :
            isUpdatable(outputs[i].dimensions, outputShapes[i].dimensions)

\* An ExecutionBuilder::updateOutputShapes that records the dimensions and
\* leaves every isSufficient mark as it was.
updateOutputShapesDimensionsOnly(outputs, outputShapes) ==
    IF Len(outputShapes) = 0 \/ ~updateOutputShapesOk(outputs, outputShapes)
    THEN outputs
    ELSE [i \in 1..Len(outputs) |->
            [outputs[i] EXCEPT !.dimensions = outputShapes[i].dimensions]]

updateOutputShapes(outputs, outputShapes) ==
    IF Len(outputShapes) = 0 \/ ~updateOutputShapesOk(outputs, outputShapes)
    THEN outputs
    ELSE [i \in 1..Len(outputs) |->
            [outputs[i] EXCEPT !.dimensions = outputShapes[i].dimensions,
                               !.isSufficient = outputShapes[i].isSufficient]]

\* A StepExecutor::updateOutputShapes that checks nothing and writes nothing.
StepUpdateOutputShapesSkipped(hasStep, indexMapping, from, to) ==
    [ok |-> TRUE, to |-> to]

\* A loop that copies every entry from position i on without checking it.
StepUpdateLoopUnchecked(indexMapping, from, to, i) ==
    [ok |-> TRUE,
     to |-> [j \in 1..Len(to) |->
               IF \E k \in i..Len(indexMapping) : indexMapping[k] + 1 = j
               THEN from[CHOOSE k \in i..Len(indexMapping) : indexMapping[k] + 1 = j]
               ELSE to[j]]]

\* The loop of StepExecutor::updateOutputShapes from position i on: entry i
\* of "from" goes to entry indexMapping[i] of "to"; the loop stops at the
\* first check that fails, keeping the entries already written.
RECURSIVE StepUpdateLoop(_, _, _, _)
StepUpdateLoop(indexMapping, from, to, i) ==
    IF i > Len(indexMapping) THEN [ok |-> TRUE, to |-> to]
    ELSE IF ~(Len(to) > indexMapping[i]) THEN [ok |-> FALSE, to |-> to]
    ELSE IF ~isUpdatable(to[indexMapping[i] + 1].dimensions, from[i].dimensions)
    THEN [ok |-> FALSE, to |-> to]
    ELSE StepUpdateLoop(indexMapping, from,
                        [to EXCEPT ![indexMapping[i] + 1] = from[i]], i + 1)

\* StepExecutor::updateOutputShapes for an executor with an ExecutionStep
\* (hasStep) or without one: [ok, to].
StepUpdateOutputShapes(hasStep, indexMapping, from, to) ==
    IF Len(from) = 0 THEN [ok |-> TRUE, to |-> to]
    ELSE IF hasStep
    THEN IF ~(Len(indexMapping) <= Len(from)) THEN [ok |-> FALSE, to |-> to]
         ELSE StepUpdateLoop(indexMapping, from, to, 1)
    ELSE IF Len(from) # Len(to) THEN [ok |-> FALSE, to |-> to]
         ELSE StepUpdateLoop([i \in 1..Len(from) |-> i - 1], from, to, 1)

\* Shape vectors a device may report for one execution: none, or one shape
\* per output of what it ran (possibly more or fewer than expected).
DeviceShapes == UNION { [1..n -> OutputShapes] : n \in 0..outputCount }

(***************************************************************************)
(* The completion channel and ExecutionBuilder::finish.                    *)
(***************************************************************************)
\* ExecutionBuilder::finish; finishCalls counts the entries, so that a second
\* entry (the CHECK(!mFinished) failure) is visible as finishCalls > 1.
finish(outputShapes) ==
    /\ finishCalls' = finishCalls + 1
    /\ mFinished' = TRUE
    /\ mOutputs' = updateOutputShapes(mOutputs, outputShapes)

Ev(ev, step, dev, code) == [ev |-> ev, step |-> step, dev |-> dev, code |-> code]

\* ExecutionCallback::notify with the onFinish hook compute() installs
\* (wrappedFinish -> ExecutionBuilder::finish).  The channel is single
\* assignment: the first notification stores the result and runs the hook.
Notify(status, outputShapes, timing) ==
    IF executionCallback.notified = 0
    THEN /\ executionCallback' = [notified |-> 1, status |-> status,
                                  outputShapes |-> outputShapes, timing |-> timing]
         /\ finish(outputShapes)
    ELSE /\ executionCallback' = [executionCallback EXCEPT !.notified = @ + 1]
         /\ UNCHANGED << finishCalls, mFinished, mOutputs >>

NoNotify == UNCHANGED << executionCallback, finishCalls, mFinished, mOutputs >>

(***************************************************************************)
(* compute().                                                              *)
(***************************************************************************)
\* computeCheck without its "already started" check.
computeCheckIgnoringStarted ==
    IF \E i \in 1..Len(mInputs) : mInputs[i].state = "UNSPECIFIED"
    THEN "BAD_DATA"
    ELSE IF \E i \in 1..Len(mOutputs) : mOutputs[i].state = "UNSPECIFIED"
    THEN "BAD_DATA"
    ELSE "NO_ERROR"

\* The checks of compute() without the loop over the outputs.
computeCheckInputsOnly ==
    IF mStarted THEN "BAD_STATE"
    ELSE IF \E i \in 1..Len(mInputs) : mInputs[i].state = "UNSPECIFIED"
    THEN "BAD_DATA"
    ELSE "NO_ERROR"

\* The checks of ExecutionBuilder::compute before it starts the execution.
computeCheck ==
    IF mStarted THEN "BAD_STATE"
    ELSE IF \E i \in 1..Len(mInputs) : mInputs[i].state = "UNSPECIFIED"
    THEN "BAD_DATA"
    ELSE IF \E i \in 1..Len(mOutputs) : mOutputs[i].state = "UNSPECIFIED"
    THEN "BAD_DATA"
    ELSE "NO_ERROR"

\* DeviceManager::partitioningAllowsFallback(mPartitioning)
partitioningAllowsFallback == mCompilation.allowsFallback

\* The three ways compute() is called: ANeuralNetworksExecution_compute
\* (no callback, no burst), _burstCompute (no callback, a burst) and
\* _startCompute (a callback).  The name is the one compute() logs.
ComputeVariants == {"compute", "burstCompute", "startCompute"}

\* A compute() that takes every call for a synchronous one.
isSynchronousAlways(variant) == TRUE

isSynchronous(variant) == variant # "startCompute"

\* A compute() that marks the Execution started before it checks the slots.
computeStartedBeforeChecks(variant, syncExecRuntime) ==
    /\ caller = "ready"
    /\ computeCalls < MaxComputeCalls
    /\ computeCalls' = computeCalls + 1
    /\ mStarted' = TRUE
    /\ IF computeCheck # "NO_ERROR"
       THEN /\ ret' = ReturnOut(variant, computeCheck,
                                IF isSynchronous(variant) THEN <<>> ELSE << NULL >>)
            /\ UNCHANGED << walker, caller >>
       ELSE /\ walker' = [IdleWalker EXCEPT
                            !.pc = "start",
                            !.allowFallback = partitioningAllowsFallback]
            /\ IF isSynchronous(variant) \/ syncExecRuntime
               THEN /\ caller' = IF isSynchronous(variant) THEN "compute"
                                 ELSE "startCompute"
                    /\ UNCHANGED ret
               ELSE /\ caller' = "ready"
                    /\ ret' = ReturnOut("startCompute", "NO_ERROR",
                                        << "executionCallback" >>)
    /\ UNCHANGED << mInputs, mOutputs, mMemories, mFinished, mMeasureTiming,
                    mTiming, executionCallback, log, finishCalls, constVars >>

\* compute(synchronizationCallback, burstBuilder) up to the point where the
\* walker has been entered (synchronous, or asynchronous non-threaded) or
\* its thread has been started (asynchronous).  syncExecRuntime is
\* DeviceManager::syncExecRuntime().  An asynchronous call that fails leaves
\* a null handle in *synchronizationCallback.  A thread blocked in a
\* synchronous call is at "compute", one in a non-threaded asynchronous call
\* at "startCompute".
compute(variant, syncExecRuntime) ==
    /\ caller = "ready"
    /\ computeCalls < MaxComputeCalls
    /\ computeCalls' = computeCalls + 1
    /\ IF computeCheck # "NO_ERROR"
       THEN /\ ret' = ReturnOut(variant, computeCheck,
                                IF isSynchronous(variant) THEN <<>> ELSE << NULL >>)
            /\ UNCHANGED << mStarted, walker, caller >>
       ELSE /\ mStarted' = TRUE
            /\ walker' = [IdleWalker EXCEPT
                            !.pc = "start",
                            !.allowFallback = partitioningAllowsFallback]
            /\ IF isSynchronous(variant) \/ syncExecRuntime
               THEN /\ caller' = IF isSynchronous(variant) THEN "compute"
                                 ELSE "startCompute"
                    /\ UNCHANGED ret
               ELSE /\ caller' = "ready"
                    /\ ret' = ReturnOut("startCompute", "NO_ERROR",
                                        << "executionCallback" >>)
    /\ UNCHANGED << mInputs, mOutputs, mMemories, mFinished, mMeasureTiming,
                    mTiming, executionCallback, log, finishCalls, constVars >>

\* The rest of compute() once the walker it ran on the calling thread has
\* returned: a synchronous call waits for the completion, records the
\* timing and returns the final status; an asynchronous one returns the
\* handle.
computeReturn ==
    /\ caller \in {"compute", "startCompute"}
    /\ walker.pc = "done"
    /\ IF caller = "compute"
       THEN /\ executionCallback.notified > 0
            /\ mTiming' = IF mMeasureTiming THEN executionCallback.timing
                          ELSE mTiming
            /\ ret' = Return("compute",
                        convertErrorStatusToResultCode(executionCallback.status))
       ELSE /\ ret' = ReturnOut("startCompute", "NO_ERROR",
                                << "executionCallback" >>)
            /\ UNCHANGED mTiming
    /\ caller' = "ready"
    /\ UNCHANGED << mInputs, mOutputs, mMemories, mStarted, mFinished,
                    mMeasureTiming, walkVars, constVars, computeCalls >>

(***************************************************************************)
(* The plan walker (asyncStartComputePartitioned) and the CPU fallback.    *)
(* walker.pc is the walker's position: "start", "next" (about to call      *)
(* plan->next), "exec" (about to start the executor it was handed),        *)
(* "partial" (entering cpuFallbackPartial), "full" (entering               *)
(* cpuFallbackFull), "done" (returned).                                    *)
(***************************************************************************)
\* A walker that takes the partitioning policy's answer as it is.
effectiveAllowFallbackOfPolicy(allowFallback, p) == allowFallback

\* allowFallback &= !plan->isSimpleCpu()
effectiveAllowFallback(allowFallback, p) == allowFallback /\ ~isSimpleCpu(p)

\* What the walker does when plan->next fails.
planFailureDisposition(allowFallback) ==
    IF allowFallback THEN "full" ELSE "notifyEmpty"

\* A walker that enters the partial fallback whenever a step could not be
\* started.
dispatchFailureDispositionRetry(allowFallback) == "partial"

\* A walker that gives up whenever a step could not be started.
dispatchFailureDispositionAbort(allowFallback) == "notifyEmpty"

\* What the walker does when the executor could not be started.
dispatchFailureDisposition(allowFallback) ==
    IF allowFallback THEN "partial" ELSE "notifyEmpty"

\* stepDisposition without its exception for OUTPUT_INSUFFICIENT_SIZE.
stepDispositionRetryAll(status, allowFallback) ==
    IF status = "NONE" THEN "continue"
    ELSE IF allowFallback THEN "partial"
    ELSE IF status = "OUTPUT_INSUFFICIENT_SIZE" THEN "notifyShapes"
    ELSE "notifyEmpty"

\* What the walker does with a step's status after reconciliation.
stepDisposition(status, allowFallback) ==
    IF status = "NONE" THEN "continue"
    ELSE IF allowFallback /\ status # "OUTPUT_INSUFFICIENT_SIZE" THEN "partial"
    ELSE IF status = "OUTPUT_INSUFFICIENT_SIZE" THEN "notifyShapes"
    ELSE "notifyEmpty"

\* partialDisposition when a failed re-run of a step of a compound plan is
\* passed over instead of escalated.
partialDispositionPassOver(status, simple) ==
    IF status # "NONE"
    THEN IF simple \/ status = "OUTPUT_INSUFFICIENT_SIZE" THEN "notifyShapes"
         ELSE "continue"
    ELSE "continue"

\* What cpuFallbackPartial does with the fallback run's status after
\* reconciliation.
partialDisposition(status, simple) ==
    IF status # "NONE"
    THEN IF simple \/ status = "OUTPUT_INSUFFICIENT_SIZE" THEN "notifyShapes"
         ELSE "full"
    ELSE "continue"

\* A cpuFallbackPartial that returns true whatever it did.
cpuFallbackPartialReturnsAlways(does) == TRUE

\* cpuFallbackPartial's result: true (the walker continues with the next
\* step) exactly when the step ran on the CPU and nothing was notified.
cpuFallbackPartialReturns(does) == does = "continue"

\* A walker that keeps the step's status when the reconciliation failed.
statusAfterUpdateIgnored(status, ok) == status

\* A walker that keeps OUTPUT_INSUFFICIENT_SIZE when the reconciliation
\* failed.
statusAfterUpdateKeepsInsufficient(status, ok) ==
    IF ~ok /\ status # "OUTPUT_INSUFFICIENT_SIZE" THEN "GENERAL_FAILURE" ELSE status

\* The status the walker classifies: the callback's status, or
\* GENERAL_FAILURE when the reconciliation failed.
statusAfterUpdate(status, ok) == IF ~ok THEN "GENERAL_FAILURE" ELSE status

\* The step the walker's current executor runs (1-based).
CurrentStep == walker.nextStepIndex

WalkerFrame == UNCHANGED << mInputs, mMemories, mStarted, mMeasureTiming,
                            constVars, caller, ret, computeCalls >>

walkerStart ==
    /\ walker.pc = "start"
    /\ walker' = [walker EXCEPT
                    !.pc = "next",
                    !.timing = kNoTiming,
                    !.allowFallback = effectiveAllowFallback(walker.allowFallback, mPlan),
                    !.outputShapes = initializeOutputShapes(mOutputs)]
    /\ NoNotify
    /\ UNCHANGED << log, mTiming >>
    /\ WalkerFrame

\* A planNext that returns on a plan failure without fallback and leaves the
\* completion unnotified.
planNextFailureUnreported(n) ==
    /\ walker.pc = "next"
    /\ IF n # "NO_ERROR"
       THEN /\ log' = log \o << Ev("next", 0, "none", n) >>
                          \o (IF planFailureDisposition(walker.allowFallback) = "full"
                              THEN <<>>
                              ELSE << Ev("notify", 0, "none",
                                         convertResultCodeToErrorStatus(n)) >>)
            /\ IF planFailureDisposition(walker.allowFallback) = "full"
               THEN /\ walker' = [walker EXCEPT !.pc = "full"]
                    /\ NoNotify
               ELSE /\ walker' = [walker EXCEPT !.pc = "done"]
                    /\ NoNotify
       ELSE IF walker.nextStepIndex = Len(mPlan.steps)
       THEN /\ log' = log \o << Ev("next", 0, "none", "NO_ERROR"),
                                Ev("notify", 0, "none", "NONE") >>
            /\ walker' = [walker EXCEPT !.pc = "done"]
            /\ Notify("NONE", walker.outputShapes, walker.timing)
       ELSE /\ log' = log \o << Ev("next", walker.nextStepIndex + 1,
                                   mPlan.steps[walker.nextStepIndex + 1].device,
                                   "NO_ERROR") >>
            /\ walker' = [walker EXCEPT !.pc = "exec",
                                        !.nextStepIndex = @ + 1]
            /\ NoNotify
    /\ UNCHANGED mTiming
    /\ WalkerFrame

\* plan->next with its result code n, and the walker's handling of its
\* three results: a failure, no executor (the plan is exhausted), or the
\* executor of the next step.
planNext(n) ==
    /\ walker.pc = "next"
    /\ IF n # "NO_ERROR"
       THEN /\ log' = log \o << Ev("next", 0, "none", n) >>
                          \o (IF planFailureDisposition(walker.allowFallback) = "full"
                              THEN <<>>
                              ELSE << Ev("notify", 0, "none",
                                         convertResultCodeToErrorStatus(n)) >>)
            /\ IF planFailureDisposition(walker.allowFallback) = "full"
               THEN /\ walker' = [walker EXCEPT !.pc = "full"]
                    /\ NoNotify
               ELSE /\ walker' = [walker EXCEPT !.pc = "done"]
                    /\ Notify(convertResultCodeToErrorStatus(n), <<>>, kNoTiming)
       ELSE IF walker.nextStepIndex = Len(mPlan.steps)
       THEN /\ log' = log \o << Ev("next", 0, "none", "NO_ERROR"),
                                Ev("notify", 0, "none", "NONE") >>
            /\ walker' = [walker EXCEPT !.pc = "done"]
            /\ Notify("NONE", walker.outputShapes, walker.timing)
       ELSE /\ log' = log \o << Ev("next", walker.nextStepIndex + 1,
                                   mPlan.steps[walker.nextStepIndex + 1].device,
                                   "NO_ERROR") >>
            /\ walker' = [walker EXCEPT !.pc = "exec",
                                        !.nextStepIndex = @ + 1]
            /\ NoNotify
    /\ UNCHANGED mTiming
    /\ WalkerFrame

\* A startCompute that creates a callback for NO_ERROR alone.
startComputeSuccessOnly(n) == n

\* StepExecutor::startCompute: what it returns for the code n of
\* PreparedModel::execute.  It creates a callback exactly when it returns
\* NO_ERROR, and the callback's status is then the status of n.
startCompute(n) ==
    IF n # "NO_ERROR" /\ n # "OUTPUT_INSUFFICIENT_SIZE" THEN n ELSE "NO_ERROR"

\* executor->startCompute on the step's own device, with the device's
\* answer (n, from, timing), and the walker's handling of the result.
\* walker.stepOutputShapes is the local stepOutputShapes: the shapes of the
\* callback of the current loop iteration.
stepCompute(n, from, timing) ==
    /\ walker.pc = "exec"
    /\ mTiming' = timing
    /\ LET device == mPlan.steps[CurrentStep].device
           upd == StepUpdateOutputShapes(~mPlan.simple,
                                         mPlan.steps[CurrentStep].indexMapping,
                                         from, walker.outputShapes)
           status == statusAfterUpdate(convertResultCodeToErrorStatus(n), upd.ok)
           does == stepDisposition(status, walker.allowFallback)
           executed == << Ev("exec", CurrentStep, device, n) >>
           reconciled == << Ev("reconcile", CurrentStep, device,
                               IF upd.ok THEN "ok" ELSE "failed") >>
       IN IF startCompute(n) # "NO_ERROR"
          THEN IF dispatchFailureDisposition(walker.allowFallback) = "partial"
               THEN /\ walker' = [walker EXCEPT !.pc = "partial"]
                    /\ log' = log \o executed
                    /\ NoNotify
               ELSE /\ walker' = [walker EXCEPT !.pc = "done"]
                    /\ log' = log \o executed
                            \o << Ev("notify", 0, "none",
                                     convertResultCodeToErrorStatus(n)) >>
                    /\ Notify(convertResultCodeToErrorStatus(n), <<>>, kNoTiming)
          ELSE CASE does = "continue" ->
                    /\ walker' = [walker EXCEPT !.pc = "next",
                                                !.outputShapes = upd.to,
                                                !.stepOutputShapes = <<>>,
                                                !.timing = timing]
                    /\ log' = log \o executed \o reconciled
                    /\ NoNotify
                 [] does = "partial" ->
                    /\ walker' = [walker EXCEPT !.pc = "partial",
                                                !.outputShapes = upd.to,
                                                !.stepOutputShapes = from]
                    /\ log' = log \o executed \o reconciled
                    /\ NoNotify
                 [] does = "notifyShapes" ->
                    /\ walker' = [walker EXCEPT !.pc = "done",
                                                !.outputShapes = upd.to,
                                                !.stepOutputShapes = from]
                    /\ log' = log \o executed \o reconciled
                            \o << Ev("notify", 0, "none", status) >>
                    /\ Notify(status, upd.to, kNoTiming)
                 [] does = "notifyEmpty" ->
                    /\ walker' = [walker EXCEPT !.pc = "done",
                                                !.outputShapes = upd.to,
                                                !.stepOutputShapes = from]
                    /\ log' = log \o executed \o reconciled
                            \o << Ev("notify", 0, "none", status) >>
                    /\ Notify(status, <<>>, kNoTiming)
    /\ WalkerFrame

\* What StepExecutor::startComputeOnCpuFallback returns: the failure of
\* prepareModel on the CPU device, or else what startCompute returns.
startComputeOnCpuFallback(prepared, n) ==
    IF prepared # "NO_ERROR" THEN prepared ELSE startCompute(n)

\* A cpuFallbackFull that delivers the walker's shape table in place of the
\* shapes of its own run.
cpuFallbackFullDeliversTable(prepared, n, from, timing) ==
    /\ walker.pc = "full"
    /\ mTiming' = IF prepared = "NO_ERROR" THEN timing ELSE mTiming
    /\ LET r == startComputeOnCpuFallback(prepared, n)
           ran == IF prepared = "NO_ERROR"
                  THEN << Ev("execFull", 0, "cpu", n) >>
                  ELSE << Ev("prepareFull", 0, "cpu", prepared) >>
       IN IF r # "NO_ERROR"
          THEN /\ log' = log \o << Ev("full", 0, "cpu", "NO_ERROR") >> \o ran
                         \o << Ev("notify", 0, "none",
                                  convertResultCodeToErrorStatus(r)) >>
               /\ walker' = [walker EXCEPT !.pc = "done"]
               /\ Notify(convertResultCodeToErrorStatus(r), <<>>, kNoTiming)
          ELSE /\ log' = log \o << Ev("full", 0, "cpu", "NO_ERROR") >> \o ran
                         \o << Ev("notify", 0, "none",
                                  convertResultCodeToErrorStatus(n)) >>
               /\ walker' = [walker EXCEPT !.pc = "done",
                                           !.stepOutputShapes = from]
               /\ Notify(convertResultCodeToErrorStatus(n), walker.outputShapes, timing)
    /\ WalkerFrame

\* cpuFallbackFull: the whole model on the CPU device, with prepareModel's
\* result and the device's answer; the completion is that of the run.
cpuFallbackFull(prepared, n, from, timing) ==
    /\ walker.pc = "full"
    /\ mTiming' = IF prepared = "NO_ERROR" THEN timing ELSE mTiming
    /\ LET r == startComputeOnCpuFallback(prepared, n)
           ran == IF prepared = "NO_ERROR"
                  THEN << Ev("execFull", 0, "cpu", n) >>
                  ELSE << Ev("prepareFull", 0, "cpu", prepared) >>
       IN IF r # "NO_ERROR"
          THEN /\ log' = log \o << Ev("full", 0, "cpu", "NO_ERROR") >> \o ran
                         \o << Ev("notify", 0, "none",
                                  convertResultCodeToErrorStatus(r)) >>
               /\ walker' = [walker EXCEPT !.pc = "done"]
               /\ Notify(convertResultCodeToErrorStatus(r), <<>>, kNoTiming)
          ELSE /\ log' = log \o << Ev("full", 0, "cpu", "NO_ERROR") >> \o ran
                         \o << Ev("notify", 0, "none",
                                  convertResultCodeToErrorStatus(n)) >>
               /\ walker' = [walker EXCEPT !.pc = "done",
                                           !.stepOutputShapes = from]
               /\ Notify(convertResultCodeToErrorStatus(n), from, timing)
    /\ WalkerFrame

\* An isCpu that takes no executor for one of the CPU device.
isCpuNever(device) == FALSE

\* An isCpu that takes every executor for one of the CPU device.
isCpuAlways(device) == TRUE

\* ExecutionPlan::fallback hands out an executor for the step that just
\* failed, still bound to that step's device; isCpu() compares that device
\* with the CPU device.
isCpu(device) == device = "cpu"

\* cpuFallbackPartial: planned is the result of plan->fallback, prepared and
\* (n, from, timing) those of the re-run of the step on the CPU device.
cpuFallbackPartial(planned, prepared, n, from, timing) ==
    /\ walker.pc = "partial"
    /\ LET device == mPlan.steps[CurrentStep].device
           entered == << Ev("partial", CurrentStep, device, planned) >>
           r == startComputeOnCpuFallback(prepared, n)
           ran == IF prepared = "NO_ERROR"
                  THEN << Ev("execPartial", CurrentStep, "cpu", n) >>
                  ELSE << Ev("preparePartial", CurrentStep, "cpu", prepared) >>
           upd == StepUpdateOutputShapes(~mPlan.simple,
                                         mPlan.steps[CurrentStep].indexMapping,
                                         from, walker.outputShapes)
           status == statusAfterUpdate(convertResultCodeToErrorStatus(n), upd.ok)
           does == partialDisposition(status, isSimple(mPlan))
           reconciled == << Ev("reconcile", CurrentStep, "cpu",
                               IF upd.ok THEN "ok" ELSE "failed") >>
       IN IF planned # "NO_ERROR" \/ isCpu(device)
          THEN /\ walker' = [walker EXCEPT !.pc = "full"]
               /\ log' = log \o entered
               /\ UNCHANGED mTiming
               /\ NoNotify
          ELSE IF r # "NO_ERROR"
          THEN /\ walker' = [walker EXCEPT !.pc = "full"]
               /\ log' = log \o entered \o ran
               /\ mTiming' = IF prepared = "NO_ERROR" THEN timing ELSE mTiming
               /\ NoNotify
          ELSE /\ mTiming' = timing
               /\ CASE does = "continue" ->
                       /\ walker' = [walker EXCEPT
                                       !.pc = IF cpuFallbackPartialReturns(does)
                                              THEN "next" ELSE "done",
                                       !.outputShapes = upd.to,
                                       !.stepOutputShapes = <<>>]
                       /\ log' = log \o entered \o ran \o reconciled
                       /\ NoNotify
                    [] does = "full" ->
                       /\ walker' = [walker EXCEPT !.pc = "full",
                                                   !.outputShapes = upd.to,
                                                   !.stepOutputShapes = from]
                       /\ log' = log \o entered \o ran \o reconciled
                       /\ NoNotify
                    [] does = "notifyShapes" ->
                       /\ walker' = [walker EXCEPT
                                       !.pc = IF cpuFallbackPartialReturns(does)
                                              THEN "next" ELSE "done",
                                       !.outputShapes = upd.to,
                                       !.stepOutputShapes = from]
                       /\ log' = log \o entered \o ran \o reconciled
                                \o << Ev("notify", 0, "none", status) >>
                       /\ Notify(status, upd.to, kNoTiming)
    /\ WalkerFrame

(***************************************************************************)
(* The lifecycle specification: the binding calls, setMeasureTiming and    *)
(* compute() in any order, on an Execution as constructed.  Each binding   *)
(* call is made with arguments that pass its checks and with arguments     *)
(* that fail each of them; devices answer with no shapes or with the       *)
(* declared ones.                                                          *)
(***************************************************************************)
\* Arguments of setInput / setOutput: accepted ones (with and without an
\* override), an index out of range, an override that contradicts the
\* declared dimensions of the second output, a length past the limit.
LifecyclePointerArgs ==
    { [index |-> 0, type |-> NullType, buffer |-> "buf", length |-> 1],
      [index |-> 1, type |-> TensorOperand(<<1>>), buffer |-> "buf", length |-> 1],
      [index |-> 1, type |-> NullType, buffer |-> "buf", length |-> 1],
      [index |-> 2, type |-> NullType, buffer |-> "buf", length |-> 1],
      [index |-> 0, type |-> NullType, buffer |-> "buf", length |-> kMaxLength + 1] }

\* Arguments of setInputFromMemory / setOutputFromMemory: an accepted range
\* of a shared-memory pool, a sub-range of a hardware buffer, a range that
\* leaves its pool, an index no input and no output has.
LifecyclePoolArgs ==
    { [index |-> 0, type |-> NullType,
       memory |-> [name |-> "ashmem", size |-> 2], offset |-> 0, length |-> 2],
      [index |-> 0, type |-> NullType,
       memory |-> [name |-> "hardware_buffer", size |-> 2], offset |-> 1, length |-> 0],
      [index |-> 1, type |-> NullType,
       memory |-> [name |-> "ashmem", size |-> 2], offset |-> 1, length |-> 2],
      [index |-> 2, type |-> NullType,
       memory |-> [name |-> "ashmem", size |-> 2], offset |-> 0, length |-> 2] }

\* The answers of plan and devices in the lifecycle specification.
LifecycleResults == {"NO_ERROR", "OP_FAILED"}
LifecycleCodes == {"NO_ERROR", "OUTPUT_INSUFFICIENT_SIZE", "OP_FAILED"}
LifecycleShapes ==
    { <<>>,
      [i \in 1..outputCount |->
          [dimensions |-> OutputOperands[i].dimensions, isSufficient |-> TRUE]] }

SetInput ==
    \E a \in LifecyclePointerArgs : setInput(a.index, a.type, a.buffer, a.length)

SetInputFromMemory ==
    \E a \in LifecyclePoolArgs :
        setInputFromMemory(a.index, a.type, a.memory, a.offset, a.length)

SetOutput ==
    \E a \in LifecyclePointerArgs : setOutput(a.index, a.type, a.buffer, a.length)

SetOutputFromMemory ==
    \E a \in LifecyclePoolArgs :
        setOutputFromMemory(a.index, a.type, a.memory, a.offset, a.length)

SetMeasureTiming == \E measure \in BOOLEAN : setMeasureTiming(measure)

GetDuration == \E durationCode \in DurationCodes : getDuration(durationCode)

GetOutputOperandDimensions ==
    \E index \in OutputIndexes : getOutputOperandDimensions(index)

GetOutputOperandRank == \E index \in OutputIndexes : getOutputOperandRank(index)

Compute ==
    \E variant \in ComputeVariants, syncExecRuntime \in BOOLEAN :
        compute(variant, syncExecRuntime)

PlanNextLifecycle == \E n \in LifecycleResults : planNext(n)

StepComputeLifecycle ==
    \E n \in LifecycleCodes, from \in LifecycleShapes :
        stepCompute(n, from, kNoTiming)

CpuFallbackPartialLifecycle ==
    \E planned \in LifecycleResults, n \in LifecycleCodes, from \in LifecycleShapes :
        cpuFallbackPartial(planned, "NO_ERROR", n, from, kNoTiming)

CpuFallbackFullLifecycle ==
    \E n \in LifecycleCodes, from \in LifecycleShapes :
        cpuFallbackFull("NO_ERROR", n, from, kNoTiming)

Next ==
    \/ SetInput
    \/ SetInputFromMemory
    \/ SetOutput
    \/ SetOutputFromMemory
    \/ SetMeasureTiming
    \/ GetDuration
    \/ GetOutputOperandDimensions
    \/ GetOutputOperandRank
    \/ Compute
    \/ computeReturn
    \/ walkerStart
    \/ PlanNextLifecycle
    \/ StepComputeLifecycle
    \/ CpuFallbackPartialLifecycle
    \/ CpuFallbackFullLifecycle

Spec == Init /\ [][Next]_vars

(***************************************************************************)
(* The walker specification: compute() on an Execution whose slots have    *)
(* all been bound by pointer, under every plan, with plan and devices      *)
(* failing in every way and devices answering with a few shape vectors.    *)
(***************************************************************************)
\* The Execution after setInput(0, nullptr, buf, 1), setOutput(0, type,
\* buffer, 1) and setOutput(1, nullptr, buf, 1).
BoundWith(type, buffer) ==
    /\ mInputs = [i \in 1..inputCount |->
                    setFromPointer(EmptyArgument, getInputOperand(i - 1),
                                   NullType, "buf", 1)]
    /\ mOutputs = [i \in 1..outputCount |->
                    setFromPointer(EmptyArgument, getOutputOperand(i - 1),
                                   IF i = 1 THEN type ELSE NullType,
                                   IF i = 1 THEN buffer ELSE "buf", 1)]
    /\ mMemories = <<>>
    /\ mStarted = FALSE
    /\ mFinished = FALSE
    /\ mTiming = kNoTiming
    /\ walker = IdleWalker
    /\ executionCallback = NoCallback
    /\ caller = "ready"
    /\ ret = Return("setOutput", "NO_ERROR")
    /\ log = <<>>
    /\ computeCalls = 0
    /\ finishCalls = 0
    /\ probe = NoProbe
    /\ threads = ReadyThreads

\* The Execution after setInput(0, nullptr, buf, 1), setOutput(0, type, buf,
\* 1) and setOutput(1, nullptr, buf, 1).
BoundByPointer(type) == BoundWith(type, "buf")

WalkInit ==
    /\ mCompilation \in Compilations
    /\ mPlan \in Plans
    /\ Compiled(mCompilation, mPlan)
    /\ mMeasureTiming = FALSE
    /\ \E type \in TypeOverrides : BoundByPointer(type)

\* Shape vectors of the walker specification: none; one shape per model
\* output, with the first output's dimension 2 or 1 (marked insufficient);
\* and a single shape.
WalkShapes ==
    { <<>>,
      << [dimensions |-> <<2>>, isSufficient |-> TRUE],
         [dimensions |-> <<2>>, isSufficient |-> TRUE] >>,
      << [dimensions |-> <<1>>, isSufficient |-> FALSE],
         [dimensions |-> <<2>>, isSufficient |-> TRUE] >>,
      << [dimensions |-> <<1>>, isSufficient |-> TRUE] >> }

\* The timing a device answers with in the walker specification.
WalkTiming == [timeOnDevice |-> 1, timeInDriver |-> 2]

\* Results of plan->fallback and of prepareModel on the CPU device.
FallbackResults == {"NO_ERROR", "OP_FAILED"}

\* The one compute() call of the walker specification.
ComputeOnce == computeCalls = 0 /\ Compute

PlanNextWalk == \E n \in PlanResults : planNext(n)

StepComputeWalk ==
    \E n \in ExecuteCodes, from \in WalkShapes : stepCompute(n, from, WalkTiming)

CpuFallbackPartialWalk ==
    \E planned \in FallbackResults, prepared \in FallbackResults,
       n \in ExecuteCodes, from \in WalkShapes :
        cpuFallbackPartial(planned, prepared, n, from, WalkTiming)

CpuFallbackFullWalk ==
    \E prepared \in FallbackResults, n \in ExecuteCodes, from \in WalkShapes :
        cpuFallbackFull(prepared, n, from, WalkTiming)

WalkNext ==
    \/ ComputeOnce
    \/ computeReturn
    \/ walkerStart
    \/ PlanNextWalk
    \/ StepComputeWalk
    \/ CpuFallbackPartialWalk
    \/ CpuFallbackFullWalk

WalkSpec == WalkInit /\ [][WalkNext]_vars

\* The walker runs to its end once compute() has entered it: on the calling
\* thread or on the thread compute() spawned, asyncStartComputePartitioned
\* takes its next step whenever plan and device calls return.
WalkerRuns ==
    /\ WF_vars(walkerStart)
    /\ WF_vars(PlanNextWalk)
    /\ WF_vars(StepComputeWalk)
    /\ WF_vars(CpuFallbackPartialWalk)
    /\ WF_vars(CpuFallbackFullWalk)

\* The walker specification with a walker that keeps running.
WalkFairSpec == WalkSpec /\ WalkerRuns

(***************************************************************************)
(* The query specification: setMeasureTiming, one compute() and the result *)
(* queries, in any order, on an Execution whose slots have all been bound  *)
(* (the first output possibly as an omitted one, with a null buffer);      *)
(* plan and devices answer with every timing and with shapes that mark an  *)
(* output insufficient.                                                    *)
(***************************************************************************)
QueryInit ==
    /\ mCompilation \in Compilations
    /\ mPlan \in LifecyclePlans
    /\ Compiled(mCompilation, mPlan)
    /\ mMeasureTiming = FALSE
    /\ \E type \in TypeOverrides, buffer \in {"buf", NULL} : BoundWith(type, buffer)

\* Shape vectors of the query specification: those of the walker
\* specification, and the first output's dimension 2 marked insufficient.
QueryShapes ==
    WalkShapes \cup
    { << [dimensions |-> <<2>>, isSufficient |-> FALSE],
         [dimensions |-> <<2>>, isSufficient |-> TRUE] >> }

PlanNextQuery == \E n \in LifecycleResults : planNext(n)

StepComputeQuery ==
    \E n \in LifecycleCodes, from \in QueryShapes, timing \in DeviceTimings :
        stepCompute(n, from, timing)

CpuFallbackPartialQuery ==
    \E planned \in LifecycleResults, n \in LifecycleCodes, from \in QueryShapes :
        cpuFallbackPartial(planned, "NO_ERROR", n, from, kNoTiming)

CpuFallbackFullQuery ==
    \E n \in LifecycleCodes, from \in QueryShapes :
        cpuFallbackFull("NO_ERROR", n, from, kNoTiming)

QueryNext ==
    \/ SetMeasureTiming
    \/ GetDuration
    \/ GetOutputOperandDimensions
    \/ GetOutputOperandRank
    \/ ComputeOnce
    \/ computeReturn
    \/ walkerStart
    \/ PlanNextQuery
    \/ StepComputeQuery
    \/ CpuFallbackPartialQuery
    \/ CpuFallbackFullQuery

QuerySpec == QueryInit /\ [][QueryNext]_vars

(***************************************************************************)
(* The concurrent specification: MaxThreads threads call compute() on the  *)
(* same bound Execution.  compute() takes no lock and mStarted is a plain  *)
(* bool, so the test of mStarted, the assignment to it and the walk are    *)
(* separate steps of a thread, and steps of different threads interleave.  *)
(* Every compute() makes its own completion channel, so every walk ends in *)
(* one call of finish; the walk is one step here.                          *)
(***************************************************************************)
\* compute() from its entry to the end of the checks of mStarted and of the
\* slots: the thread returns the failure, or goes on.
computeChecks(t) ==
    /\ threads[t].pc = "ready"
    /\ threads' = [threads EXCEPT ![t] =
                     IF computeCheck # "NO_ERROR"
                     THEN [@ EXCEPT !.pc = "returned", !.n = computeCheck]
                     ELSE [@ EXCEPT !.pc = "checked"]]
    /\ UNCHANGED << execVars, walkVars, mCompilation, mPlan, probe, caller,
                    ret, computeCalls >>

\* compute() after the checks: mStarted = true, and the walker is entered
\* or its thread started.
computeStarts(t) ==
    /\ threads[t].pc = "checked"
    /\ mStarted' = TRUE
    /\ threads' = [threads EXCEPT ![t] = [@ EXCEPT !.pc = "walking", !.walked = TRUE]]
    /\ UNCHANGED << mInputs, mOutputs, mMemories, mFinished, mMeasureTiming,
                    mTiming, walkVars, mCompilation, mPlan, probe, caller,
                    ret, computeCalls >>

\* The walk started by thread t delivers its completion: finish is called
\* through the onFinish hook of the walk's own completion channel.  On an
\* Execution already finished CHECK(!mFinished) aborts the process.
computeFinishes(t, n, outputShapes) ==
    /\ threads[t].pc = "walking"
    /\ IF mFinished
       THEN /\ threads' = [u \in Threads |-> [threads[u] EXCEPT !.pc = "aborted"]]
            /\ finishCalls' = finishCalls + 1
            /\ UNCHANGED << mFinished, mOutputs >>
       ELSE /\ threads' = [threads EXCEPT ![t] = [@ EXCEPT !.pc = "returned", !.n = n]]
            /\ finish(outputShapes)
    /\ UNCHANGED << mInputs, mMemories, mStarted, mMeasureTiming, mTiming,
                    walker, executionCallback, log, mCompilation, mPlan,
                    probe, caller, ret, computeCalls >>

ComputeChecks == \E t \in Threads : computeChecks(t)

ComputeStarts == \E t \in Threads : computeStarts(t)

ComputeFinishes ==
    \E t \in Threads, n \in LifecycleCodes, outputShapes \in LifecycleShapes :
        computeFinishes(t, n, outputShapes)

RaceInit ==
    /\ mCompilation \in Compilations
    /\ mPlan \in LifecyclePlans
    /\ Compiled(mCompilation, mPlan)
    /\ mMeasureTiming = FALSE
    /\ \E type \in TypeOverrides, buffer \in {"buf", NULL} : BoundWith(type, buffer)

RaceNext == ComputeChecks \/ ComputeStarts \/ ComputeFinishes

RaceSpec == RaceInit /\ [][RaceNext]_vars

(***************************************************************************)
(* The reconciliation specification: isUpdatable and the two               *)
(* updateOutputShapes applied on their own to every pair of dimension      *)
(* vectors of rank up to two, and to every shape table and every report of *)
(* a device over vectors of rank up to one.  A behaviour applies one       *)
(* function once.                                                          *)
(***************************************************************************)
\* Dimension vectors of rank zero, one and two.
ProbeDims == DimVectors \cup { << a, b >> : a, b \in 0..MaxDim }

\* Shape tables of the walker: one shape per output of the model.
ProbeTables ==
    [1..outputCount -> [dimensions : DimVectors, isSufficient : {TRUE}]]

\* Output bindings of an Execution, with any dimensions.
ProbeOutputs ==
    { [i \in 1..outputCount |-> [EmptyArgument EXCEPT !.state = "POINTER",
                                                     !.buffer = "buf",
                                                     !.dimensions = dims[i]]]
        : dims \in [1..outputCount -> DimVectors] }

\* Executors: without an ExecutionStep, or with one and its mapping from
\* the outputs of the step to those of the model (0-based), which may name
\* an output the model does not have.
ProbeExecutors ==
    { [hasStep |-> FALSE, indexMapping |-> <<>>] } \cup
    { [hasStep |-> TRUE, indexMapping |-> m]
        : m \in { <<0>>, <<1>>, << 0, 1 >>, << 1, 0 >>, << outputCount >> } }

ProbeFrame == UNCHANGED << execVars, walkVars, mCompilation, mPlan, caller,
                          ret, computeCalls, threads >>

IsUpdatable ==
    /\ probe = NoProbe
    /\ \E to \in ProbeDims, from \in ProbeDims :
          probe' = [op |-> "isUpdatable", to |-> to, from |-> from,
                    result |-> isUpdatable(to, from)]
    /\ ProbeFrame

StepExecutorUpdateOutputShapes ==
    /\ probe = NoProbe
    /\ \E e \in ProbeExecutors, from \in DeviceShapes, to \in ProbeTables :
          probe' = [op |-> "StepExecutor::updateOutputShapes",
                    hasStep |-> e.hasStep, indexMapping |-> e.indexMapping,
                    from |-> from, to |-> to,
                    result |-> StepUpdateOutputShapes(e.hasStep, e.indexMapping,
                                                      from, to)]
    /\ ProbeFrame

ExecutionBuilderUpdateOutputShapes ==
    /\ probe = NoProbe
    /\ \E outputs \in ProbeOutputs, outputShapes \in DeviceShapes :
          probe' = [op |-> "ExecutionBuilder::updateOutputShapes",
                    outputs |-> outputs, outputShapes |-> outputShapes,
                    ok |-> updateOutputShapesOk(outputs, outputShapes),
                    result |-> updateOutputShapes(outputs, outputShapes)]
    /\ ProbeFrame

\* Operands of a model: tensors of any rank up to two, with unspecified
\* dimensions or none; and a scalar.
ProbeOperands ==
    { TensorOperand(dims) : dims \in ProbeDims } \cup
    { [type |-> "FLOAT32", dimensions |-> <<>>] }

\* Type overrides: none, or a tensor type with any of these dimensions.
ProbeTypes == { NullType } \cup { TensorOperand(dims) : dims \in ProbeDims }

\* The call of checkDimensionInfo a binding call makes for its operand, and
\* the code the binding call returns when the check fails.
CheckDimensionInfo ==
    /\ probe = NoProbe
    /\ \E call \in BindCalls, operand \in ProbeOperands, newType \in ProbeTypes,
          buffer \in {"buf", NULL} :
          /\ (call \in {"setInputFromMemory", "setOutputFromMemory"}) => buffer = NULL
          /\ probe' = [op |-> "checkDimensionInfo", call |-> call,
                       operand |-> operand, newType |-> newType, buffer |-> buffer,
                       result |-> checkDimensionInfo(operand, newType,
                                                     allowUnspecified(call, buffer))]
    /\ ProbeFrame

ShapeInit ==
    /\ mCompilation \in Compilations
    /\ mPlan \in SimplePlans
    /\ Constructed

ShapeNext ==
    \/ CheckDimensionInfo
    \/ IsUpdatable
    \/ StepExecutorUpdateOutputShapes
    \/ ExecutionBuilderUpdateOutputShapes

ShapeSpec == ShapeInit /\ [][ShapeNext]_vars

(***************************************************************************)
(* The mapping specification: binding calls in any order on a new          *)
(* Execution, and then one of the two mappings of StepExecutor applied to  *)
(* the Execution as it is.                                                 *)
(***************************************************************************)
\* Arguments of setInput / setOutput in the mapping specification: those of
\* the lifecycle specification, and a null buffer.
MapPointerArgs ==
    LifecyclePointerArgs \cup
    { [index |-> 0, type |-> NullType, buffer |-> NULL, length |-> 0] }

\* Arguments of setInputFromMemory / setOutputFromMemory in the mapping
\* specification: ranges of two pools, for each slot.
MapPoolArgs ==
    { [index |-> 0, type |-> NullType,
       memory |-> [name |-> "ashmem", size |-> 2], offset |-> 0, length |-> 2],
      [index |-> 0, type |-> TensorOperand(<<2>>),
       memory |-> [name |-> "hardware_buffer", size |-> 2], offset |-> 0, length |-> 0],
      [index |-> 1, type |-> NullType,
       memory |-> [name |-> "ashmem", size |-> 2], offset |-> 1, length |-> 1],
      [index |-> 1, type |-> NullType,
       memory |-> [name |-> "hardware_buffer", size |-> 2], offset |-> 0, length |-> 0],
      [index |-> 0, type |-> NullType,
       memory |-> [name |-> "hardware_buffer", size |-> 2], offset |-> 1, length |-> 0],
      [index |-> 0, type |-> NullType,
       memory |-> [name |-> "hardware_buffer", size |-> 2], offset |-> 0, length |-> 2],
      [index |-> 0, type |-> NullType,
       memory |-> [name |-> "ashmem", size |-> 2], offset |-> 1, length |-> 2] }

\* The pools these calls name.
PoolMemories == { a.memory : a \in MapPoolArgs }

\* Pool tables an executor may hold when a binding is mapped: empty, or
\* holding one or two of the pools, each once.
ExecutorMemories ==
    { <<>> } \cup { << m >> : m \in PoolMemories }
             \cup { << p[1], p[2] >> :
                        p \in { q \in PoolMemories \X PoolMemories : q[1] # q[2] } }

\* The bindings of the Execution.
BuilderArguments ==
    { mInputs[i] : i \in 1..Len(mInputs) } \cup { mOutputs[i] : i \in 1..Len(mOutputs) }

SetInputBeforeMapping ==
    /\ probe = NoProbe
    /\ \E a \in MapPointerArgs : setInput(a.index, a.type, a.buffer, a.length)

SetOutputBeforeMapping ==
    /\ probe = NoProbe
    /\ \E a \in MapPointerArgs : setOutput(a.index, a.type, a.buffer, a.length)

SetInputFromMemoryBeforeMapping ==
    /\ probe = NoProbe
    /\ \E a \in MapPoolArgs :
          setInputFromMemory(a.index, a.type, a.memory, a.offset, a.length)

SetOutputFromMemoryBeforeMapping ==
    /\ probe = NoProbe
    /\ \E a \in MapPoolArgs :
          setOutputFromMemory(a.index, a.type, a.memory, a.offset, a.length)

MapInputsAndOutputsTrivially ==
    /\ probe = NoProbe
    /\ probe' = [op |-> "mapInputsAndOutputsTrivially",
                 result |-> mapInputsAndOutputsTrivially(mInputs, mOutputs, mMemories)]
    /\ ProbeFrame

MapInputOrOutput ==
    /\ probe = NoProbe
    /\ \E builderInputOrOutput \in BuilderArguments,
          executorMemories \in ExecutorMemories :
          probe' = [op |-> "mapInputOrOutput",
                    builderInputOrOutput |-> builderInputOrOutput,
                    executorMemories |-> executorMemories,
                    result |-> mapInputOrOutput(builderInputOrOutput, mMemories,
                                                executorMemories)]
    /\ ProbeFrame

MapInit ==
    /\ mCompilation \in Compilations
    /\ mPlan \in LifecyclePlans
    /\ Compiled(mCompilation, mPlan)
    /\ Constructed

MapNext ==
    \/ SetInputBeforeMapping
    \/ SetOutputBeforeMapping
    \/ SetInputFromMemoryBeforeMapping
    \/ SetOutputFromMemoryBeforeMapping
    \/ MapInputsAndOutputsTrivially
    \/ MapInputOrOutput

MapSpec == MapInit /\ [][MapNext]_vars

(***************************************************************************)
(* Properties.                                                             *)
(***************************************************************************)
\* A step in which compute() is called.
ComputeCalled == computeCalls' = computeCalls + 1

\* A step in which one of the four binding calls is made.
BindCalled == SetInput \/ SetInputFromMemory \/ SetOutput \/ SetOutputFromMemory

\* C1 as stated: the second compute() call on an Execution returns
\* BAD_STATE and starts no plan walk, whatever the first call did.
C1_SecondComputeRejected ==
    [][(computeCalls = 1 /\ ComputeCalled)
        => (ret'.n = "BAD_STATE" /\ walker' = walker)]_vars

\* C1 amended: once a compute() call has passed its checks (the Execution
\* is started), every later compute() call of any variant returns BAD_STATE,
\* leaves a null handle if asynchronous, and starts no plan walk: the
\* walker, its completion channel and the Execution are left as they were.
C1_ComputeAfterStartRejected ==
    [][(mStarted /\ ComputeCalled)
        => /\ ret'.n = "BAD_STATE"
           /\ ret'.out \in {<<>>, << NULL >>}
           /\ UNCHANGED << walker, executionCallback, log, finishCalls,
                           execVars >>]_vars

\* C1 witness: a second compute() call has been rejected with BAD_STATE on
\* a started Execution.
C1_Witness ==
    /\ computeCalls = 2
    /\ mStarted
    /\ ret.op \in ComputeVariants
    /\ ret.n = "BAD_STATE"

\* C2 as stated: every binding call made after compute() has been called
\* returns BAD_STATE and changes no binding.
C2_BindAfterComputeRejected ==
    [][(computeCalls >= 1 /\ BindCalled)
        => (ret'.n = "BAD_STATE"
            /\ UNCHANGED << mInputs, mOutputs, mMemories >>)]_vars

\* C2 amended: every binding call made after a compute() call has passed
\* its checks (the Execution is started) returns BAD_STATE, whatever its
\* arguments, and changes no binding and no entry of the pool table.
C2_BindAfterStartRejected ==
    [][(mStarted /\ BindCalled)
        => (ret'.n = "BAD_STATE"
            /\ UNCHANGED << mInputs, mOutputs, mMemories >>)]_vars

\* C2 witness: a binding call has been rejected with BAD_STATE on a started
\* Execution.
C2_Witness ==
    /\ mStarted
    /\ ret.op \in {"setInput", "setInputFromMemory", "setOutput",
                   "setOutputFromMemory"}
    /\ ret.n = "BAD_STATE"

\* The positions of the log that hold one of the events evs.
LogEvents(evs) == { i \in 1..Len(log) : log[i].ev \in evs }

\* The events of the CPU fallback, partial and full.
FallbackEvents == {"partial", "execPartial", "preparePartial",
                   "full", "execFull", "prepareFull"}

\* The events in which a device executes: a step on its own device, a step
\* re-run on the CPU, the whole model on the CPU.
ExecutionEvents == {"exec", "execPartial", "execFull"}

\* The execution logged at position i reported OUTPUT_INSUFFICIENT_SIZE.
ReportsInsufficientAt(i) ==
    /\ log[i].ev \in ExecutionEvents
    /\ log[i].code = "OUTPUT_INSUFFICIENT_SIZE"

\* The shapes reported by the execution logged at position i were
\* reconciled into the walker's table (a full-model run reconciles nothing).
ReconciledAfter(i) ==
    \/ log[i].ev = "execFull"
    \/ /\ i + 1 <= Len(log)
       /\ log[i + 1].ev = "reconcile"
       /\ log[i + 1].code = "ok"

\* C3: a compute() that passed its checks delivers exactly one completion:
\* none while the walker runs, exactly one once it has returned (on every
\* path and for every variant of compute()), never two; finish() has run
\* exactly as often as a completion was delivered, so never twice, and a
\* synchronous compute() returns only after the completion.
C3_ExactlyOneCompletion ==
    /\ executionCallback.notified <= 1
    /\ finishCalls = executionCallback.notified
    /\ mFinished <=> (finishCalls = 1)
    /\ (walker.pc = "done") <=> (executionCallback.notified = 1)
    /\ (mStarted /\ caller = "ready" /\ ret.op \in {"compute", "burstCompute"})
          => executionCallback.notified = 1

\* C3 witness: an asynchronous compute() whose walk went through a partial
\* and then a full-model fallback has delivered its one completion.
C3_Witness ==
    /\ walker.pc = "done"
    /\ ret.op = "startCompute"
    /\ executionCallback.notified = 1
    /\ finishCalls = 1
    /\ LogEvents({"execPartial"}) # {}
    /\ LogEvents({"execFull"}) # {}

\* C4 as stated: once an execution (of a step on its device, or of a
\* fallback run) has reported OUTPUT_INSUFFICIENT_SIZE, no fallback is
\* attempted afterwards and the status delivered is OUTPUT_INSUFFICIENT_SIZE.
C4_NoFallbackAfterInsufficientReport ==
    \A i \in 1..Len(log) :
        ReportsInsufficientAt(i)
        => /\ \A j \in (i + 1)..Len(log) : log[j].ev \notin FallbackEvents
           /\ executionCallback.notified > 0
                 => executionCallback.status = "OUTPUT_INSUFFICIENT_SIZE"

\* C4 amended: once an execution has reported OUTPUT_INSUFFICIENT_SIZE and
\* the shapes it reported have been reconciled into the walker's table, the
\* walk is over: no fallback is attempted afterwards and the one status
\* delivered is OUTPUT_INSUFFICIENT_SIZE.
C4_NoFallbackAfterInsufficientStatus ==
    \A i \in 1..Len(log) :
        (ReportsInsufficientAt(i) /\ ReconciledAfter(i))
        => /\ \A j \in (i + 1)..Len(log) : log[j].ev \notin FallbackEvents
           /\ walker.pc = "done"
           /\ executionCallback.notified = 1
           /\ executionCallback.status = "OUTPUT_INSUFFICIENT_SIZE"

\* C4 witness: with fallback allowed, a step's own device reported
\* OUTPUT_INSUFFICIENT_SIZE, its shapes were reconciled, and that status
\* was delivered.
C4_Witness ==
    /\ walker.allowFallback
    /\ \E i \in LogEvents({"exec"}) :
          ReportsInsufficientAt(i) /\ ReconciledAfter(i)
    /\ executionCallback.status = "OUTPUT_INSUFFICIENT_SIZE"

\* The last execution logged, and the shapes it reported.
LastExecution == log[CHOOSE i \in LogEvents(ExecutionEvents) :
                        \A j \in LogEvents(ExecutionEvents) : j <= i]

DeliveredInsufficient ==
    /\ executionCallback.notified = 1
    /\ executionCallback.status = "OUTPUT_INSUFFICIENT_SIZE"

\* C5 as stated: when the status delivered is OUTPUT_INSUFFICIENT_SIZE, the
\* shapes delivered are the shapes the failing execution reported.
C5_DeliveredShapesAreReported ==
    DeliveredInsufficient
    => executionCallback.outputShapes = walker.stepOutputShapes

\* C5 amended: when the status delivered is OUTPUT_INSUFFICIENT_SIZE, the
\* shapes delivered are those of a full-model fallback run as reported, and
\* otherwise the walker's table after reconciliation: one shape per output
\* of the model, in which every output the failing step produces holds the
\* shape that step reported for it.  Under a simple plan with a non-empty
\* report that is the report itself.
C5_DeliveredShapesAreReconciledTable ==
    DeliveredInsufficient
    => LET delivered == executionCallback.outputShapes
           from == walker.stepOutputShapes
           indexMapping == mPlan.steps[LastExecution.step].indexMapping
       IN IF LastExecution.ev = "execFull"
          THEN delivered = from
          ELSE /\ delivered = walker.outputShapes
               /\ Len(delivered) = outputCount
               /\ (from # <<>> /\ isSimple(mPlan)) => delivered = from
               /\ (from # <<>> /\ ~isSimple(mPlan))
                     => \A i \in 1..Len(indexMapping) :
                           delivered[indexMapping[i] + 1] = from[i]

\* C5 witness: under a compound plan a step reported
\* OUTPUT_INSUFFICIENT_SIZE with shapes, and the shapes delivered with that
\* status are not the ones it reported.
C5_Witness ==
    /\ DeliveredInsufficient
    /\ ~isSimple(mPlan)
    /\ LastExecution.ev \in {"exec", "execPartial"}
    /\ walker.stepOutputShapes # <<>>
    /\ executionCallback.outputShapes # walker.stepOutputShapes

\* The partial fallback entered at position i of the log failed: the plan
\* had no replacement executor, the replacement was the CPU already, the
\* model could not be prepared or executed on the CPU, or the run's status
\* after reconciliation was not NONE.
PartialFailedAt(i) ==
    /\ log[i].ev = "partial"
    /\ \/ log[i].code # "NO_ERROR"
       \/ log[i].dev = "cpu"
       \/ /\ i + 1 <= Len(log)
          /\ \/ log[i + 1].ev = "preparePartial"
             \/ /\ log[i + 1].ev = "execPartial"
                /\ \/ log[i + 1].code # "NO_ERROR"
                   \/ /\ i + 2 <= Len(log)
                      /\ log[i + 2].ev = "reconcile"
                      /\ log[i + 2].code = "failed"

\* C6: under a compound plan, once a partial fallback of a step has failed
\* the walker asks for no further step, starts no further step and enters
\* no further partial fallback: it is in the full-model fallback or has
\* returned, and when it has returned the completion has been delivered.
C6_NoSecondPartialFallback ==
    \A i \in 1..Len(log) :
        (~isSimple(mPlan) /\ PartialFailedAt(i))
        => /\ \A j \in (i + 1)..Len(log) :
                 /\ log[j].ev \notin {"partial", "next", "exec"}
                 /\ log[j].ev \in {"execPartial", "preparePartial", "reconcile"}
                       => j <= i + 2
           /\ walker.pc \in {"full", "done"}
           /\ walker.pc = "done" => executionCallback.notified = 1

\* C6 witness: under a compound plan the re-run of a step on the CPU ended
\* with a status other than NONE, the whole model was then run on the CPU,
\* and the walker has returned.
C6_Witness ==
    /\ ~isSimple(mPlan)
    /\ walker.pc = "done"
    /\ \E i \in LogEvents({"partial"}) :
          /\ PartialFailedAt(i)
          /\ i + 2 <= Len(log)
          /\ log[i + 2].ev = "reconcile"
    /\ LogEvents({"execFull"}) # {}

\* The partial fallback entered at position i of the log went as far as
\* preparing or executing the step on the CPU device.
PartialAttemptedAt(i) ==
    /\ log[i].ev = "partial"
    /\ i + 1 <= Len(log)
    /\ log[i + 1].ev \in {"preparePartial", "execPartial"}

\* C7: under a simple plan, once a partial fallback has been attempted and
\* has failed, no full-model fallback follows, and one compute() executes
\* at most once on the CPU device as a fallback.
C7_SimplePlanFallsBackOnce ==
    isSimple(mPlan)
    => /\ \A i \in 1..Len(log) :
             (PartialAttemptedAt(i) /\ PartialFailedAt(i))
             => \A j \in (i + 1)..Len(log) :
                   log[j].ev \notin {"full", "prepareFull", "execFull"}
       /\ Cardinality(LogEvents({"execPartial", "execFull"})) <= 1

\* The code whose failure ended a walk without fallback: that of plan->next
\* or of the step's execution, or a failed reconciliation.
SurfacedStatus(e, reconciled) ==
    IF e.ev = "reconcile" THEN
        IF e.code = "failed" THEN "GENERAL_FAILURE"
        ELSE convertResultCodeToErrorStatus(reconciled.code)
    ELSE convertResultCodeToErrorStatus(e.code)

\* C8: when the partitioning policy disallows fallback, the walker never
\* enters a fallback and runs nothing on the CPU device as a retry; a walk
\* that ends with a status other than NONE and OUTPUT_INSUFFICIENT_SIZE
\* delivers the status of the failure that ended it (of plan->next, of the
\* dispatch, or GENERAL_FAILURE of a failed reconciliation), no shapes and
\* the timing "not measured".
C8_NoFallbackWhenDisallowed ==
    (mStarted /\ ~partitioningAllowsFallback)
    => /\ walker.pc \notin {"partial", "full"}
       /\ LogEvents(FallbackEvents) = {}
       /\ (executionCallback.notified = 1
           /\ executionCallback.status \notin {"NONE", "OUTPUT_INSUFFICIENT_SIZE"})
          => /\ executionCallback.outputShapes = <<>>
             /\ executionCallback.timing = kNoTiming
             /\ Len(log) >= 2
             /\ log[Len(log)].ev = "notify"
             /\ executionCallback.status =
                   SurfacedStatus(log[Len(log) - 1],
                                  IF Len(log) >= 3 THEN log[Len(log) - 2]
                                  ELSE log[Len(log) - 1])

\* C8 witness: with fallback disallowed, a step on an accelerator could not
\* be started and the walk ended with that failure.
C8_Witness ==
    /\ ~partitioningAllowsFallback
    /\ walker.pc = "done"
    /\ executionCallback.status = "DEVICE_UNAVAILABLE"
    /\ executionCallback.outputShapes = <<>>
    /\ \E i \in LogEvents({"exec"}) :
          log[i].dev = "accel" /\ log[i].code = "UNAVAILABLE_DEVICE"

\* C9: under a simple plan on the CPU device the walk runs without
\* fallback whatever the partitioning policy says: the walker never enters
\* the partial or the full-model fallback, whatever fails.
C9_NoFallbackOnSimpleCpuPlan ==
    (mStarted /\ walker.pc # "start" /\ isSimpleCpu(mPlan))
    => /\ ~walker.allowFallback
       /\ walker.pc \notin {"partial", "full"}
       /\ LogEvents(FallbackEvents) = {}

\* C9 witness: under a simple plan on the CPU device, with a policy that
\* allows fallback, the walk has ended with a failure.
C9_Witness ==
    /\ isSimpleCpu(mPlan)
    /\ partitioningAllowsFallback
    /\ walker.pc = "done"
    /\ executionCallback.status \notin {"NONE", "OUTPUT_INSUFFICIENT_SIZE"}

\* The log holds at least k events and the walk had fallback allowed, a
\* two-step plan, and a first step that failed with UNAVAILABLE_DEVICE.
ScenarioC(k) ==
    /\ partitioningAllowsFallback
    /\ Len(mPlan.steps) = 2
    /\ Len(log) >= k
    /\ log[1] = Ev("next", 1, mPlan.steps[1].device, "NO_ERROR")
    /\ log[2] = Ev("exec", 1, mPlan.steps[1].device, "UNAVAILABLE_DEVICE")

\* ScenarioC(k), and the partial fallback of the first step succeeded.
ScenarioCRecovered(k) ==
    /\ ScenarioC(k)
    /\ log[4] = Ev("execPartial", 1, "cpu", "NO_ERROR")
    /\ log[5] = Ev("reconcile", 1, "cpu", "ok")

\* C10: with fallback allowed and a two-step plan whose first step fails
\* with UNAVAILABLE_DEVICE, the walker enters the partial fallback of step
\* 1, which (the plan handing out an executor that is not yet on the CPU
\* device) prepares and runs step 1, and only it, on the CPU device.  If
\* that run succeeds the walker next asks the plan for the next step, is
\* handed step 2 and runs it on its own device; step 1 is not run again,
\* and the whole model is not run unless something fails later; and if
\* step 2 succeeds and the plan is then exhausted, the status delivered is
\* NONE.
C10_PartialFallbackThenNextStep ==
    /\ ScenarioC(3) => log[3].ev = "partial" /\ log[3].step = 1
    /\ (ScenarioC(4) /\ log[3].code = "NO_ERROR" /\ mPlan.steps[1].device # "cpu")
          => /\ log[4].ev \in {"preparePartial", "execPartial"}
             /\ log[4].step = 1
             /\ log[4].dev = "cpu"
    /\ ScenarioCRecovered(5)
          => /\ \A i \in 6..Len(log) :
                   log[i].ev \in {"exec", "partial", "preparePartial", "execPartial"}
                   => log[i].step = 2
             /\ \A i \in LogEvents({"full", "prepareFull", "execFull"}) :
                   \E j \in 6..(i - 1) : log[j].code \notin {"NO_ERROR", "ok"}
    /\ ScenarioCRecovered(6) => log[6].ev = "next"
    /\ (ScenarioCRecovered(7) /\ log[6].code = "NO_ERROR")
          => /\ log[6] = Ev("next", 2, mPlan.steps[2].device, "NO_ERROR")
             /\ log[7].ev = "exec"
             /\ log[7].step = 2
             /\ log[7].dev = mPlan.steps[2].device
    /\ (ScenarioCRecovered(10) /\ log[7].code = "NO_ERROR"
        /\ log[8].code = "ok" /\ log[9].code = "NO_ERROR")
          => /\ log[9] = Ev("next", 0, "none", "NO_ERROR")
             /\ log[10] = Ev("notify", 0, "none", "NONE")
             /\ walker.pc = "done"
             /\ executionCallback.notified = 1
             /\ executionCallback.status = "NONE"

\* C10 witness: the scenario ran to its end: step 1 failed with
\* UNAVAILABLE_DEVICE on an accelerator, was re-run on the CPU device, step
\* 2 ran on its accelerator, and NONE was delivered.
C10_Witness ==
    /\ ScenarioCRecovered(10)
    /\ mPlan.steps[1].device = "accel"
    /\ mPlan.steps[2].device = "accel"
    /\ log[7] = Ev("exec", 2, "accel", "NO_ERROR")
    /\ walker.pc = "done"
    /\ executionCallback.status = "NONE"

\* Every position of "to" that holds a non-zero value holds the same value
\* in "from" (for vectors of equal rank).
RefinesMonotonically(to, from) ==
    \A i \in 1..Len(to) : to[i] # 0 => to[i] = from[i]

\* The pairs (i, j) such that entry i of a report goes to entry j of the
\* table (both 1-based) under the executor of the probe.
ProbeMappedPairs ==
    IF probe.hasStep
    THEN { << i, probe.indexMapping[i] + 1 >> : i \in 1..Len(probe.indexMapping) }
    ELSE { << i, i >> : i \in 1..Len(probe.from) }

\* The report of the probe holds, for some output, dimensions of the rank
\* of the table's that change a non-zero position.
ProbeReportViolates ==
    \E pr \in ProbeMappedPairs :
        /\ pr[1] <= Len(probe.from)
        /\ pr[2] <= Len(probe.to)
        /\ Len(probe.to[pr[2]].dimensions) = Len(probe.from[pr[1]].dimensions)
        /\ ~RefinesMonotonically(probe.to[pr[2]].dimensions,
                                 probe.from[pr[1]].dimensions)

ProbeShapesViolate ==
    \E i \in 1..Len(probe.outputShapes) :
        /\ i <= Len(probe.outputs)
        /\ Len(probe.outputs[i].dimensions) = Len(probe.outputShapes[i].dimensions)
        /\ ~RefinesMonotonically(probe.outputs[i].dimensions,
                                 probe.outputShapes[i].dimensions)

\* C11: for dimension vectors of equal rank isUpdatable(to, from) holds
\* exactly when every non-zero position of "to" holds the same value in
\* "from"; and a report in which the shape of some output fails this is
\* rejected by the reconciliation of a step (StepExecutor::
\* updateOutputShapes returns false) and by that of finish()
\* (ExecutionBuilder::updateOutputShapes returns false and leaves the
\* bindings as they were).
C11_IsUpdatableIsMonotonicRefinement ==
    /\ (probe.op = "isUpdatable" /\ Len(probe.to) = Len(probe.from))
          => (probe.result <=> RefinesMonotonically(probe.to, probe.from))
    /\ (probe.op = "StepExecutor::updateOutputShapes" /\ ProbeReportViolates)
          => ~probe.result.ok
    /\ (probe.op = "ExecutionBuilder::updateOutputShapes" /\ ProbeShapesViolate)
          => (~probe.ok /\ probe.result = probe.outputs)

\* C11 witness: the reconciliation of a step under a compound plan has
\* rejected a report that changes a non-zero dimension of the table.
C11_Witness ==
    /\ probe.op = "StepExecutor::updateOutputShapes"
    /\ probe.hasStep
    /\ ProbeReportViolates
    /\ ~probe.result.ok

\* Dimensions "new" may stand where dimensions "old" stood: "old" was of
\* unknown rank, or "new" has its rank and keeps its non-zero positions.
RefinedBy(old, new) ==
    \/ Len(old) = 0
    \/ Len(old) = Len(new) /\ RefinesMonotonically(old, new)

\* C12: in every step of a walk (the result of a step, of a partial
\* fallback, of a full-model fallback, and finish()), every entry of the
\* walker's shape table and every output binding of the Execution keeps its
\* rank once known and its non-zero dimensions: only positions holding 0
\* and vectors of unknown rank are overwritten.
C12_MonotonicRefinement ==
    [][mStarted
        => /\ \A i \in 1..Len(mOutputs) :
                 RefinedBy(mOutputs[i].dimensions, mOutputs'[i].dimensions)
           /\ walker.pc \notin {"idle", "start"}
                 => /\ Len(walker'.outputShapes) = Len(walker.outputShapes)
                    /\ \A i \in 1..Len(walker.outputShapes) :
                          RefinedBy(walker.outputShapes[i].dimensions,
                                    walker'.outputShapes[i].dimensions)]_vars

\* C12 witness: a walk refined the first output's unspecified dimension in
\* the walker's table and then rejected a report that contradicted a known
\* dimension.
C12_Witness ==
    /\ walker.pc = "done"
    /\ mOutputs[1].dimensions = <<0>>
    /\ walker.outputShapes[1].dimensions = <<2>>
    /\ \E i \in LogEvents({"reconcile"}) : log[i].code = "failed"

\* A step in which one of the three result queries is made.
QueryCalled == GetDuration \/ GetOutputOperandDimensions \/ GetOutputOperandRank

\* C13: the lifecycle only moves forward: a finished Execution is a
\* started one, mStarted and mFinished are never cleared, and a result
\* query made while the Execution is not finished (not started, or started
\* with the walk still running) returns BAD_STATE and writes nothing
\* through its output parameter.
C13_LifecycleMovesForward ==
    [][/\ mFinished' => mStarted'
       /\ mStarted => mStarted'
       /\ mFinished => mFinished'
       /\ (QueryCalled /\ ~mFinished)
             => (ret'.n = "BAD_STATE" /\ ret'.out = <<>>)]_vars

\* C13 witness: getOutputOperandRank was refused with BAD_STATE while an
\* asynchronous walk was running.
C13_Witness ==
    /\ mStarted
    /\ ~mFinished
    /\ walker.pc \in {"next", "exec", "partial", "full"}
    /\ ret = ReturnOut("getOutputOperandRank", "BAD_STATE", <<>>)

\* The result code the queries give for a shape: success, or
\* OUTPUT_INSUFFICIENT_SIZE for a shape marked insufficient.
SufficiencySignal(shape) ==
    IF shape.isSufficient THEN "NO_ERROR" ELSE "OUTPUT_INSUFFICIENT_SIZE"

\* A compute has delivered OUTPUT_INSUFFICIENT_SIZE together with the
\* walker's table of shapes (after a step's own run or its partial fallback
\* run, not after a full-model fallback run), one of them marked
\* insufficient, and the Execution is finished.
InsufficientShapesDelivered ==
    /\ DeliveredInsufficient
    /\ mFinished
    /\ LogEvents({"execFull"}) = {}
    /\ \E i \in 1..Len(executionCallback.outputShapes) :
          ~executionCallback.outputShapes[i].isSufficient

\* C14 as stated: after a compute that delivered OUTPUT_INSUFFICIENT_SIZE
\* with such shapes, getOutputOperandDimensions and getOutputOperandRank on any
\* output write the delivered dimensions (their number) and return
\* OUTPUT_INSUFFICIENT_SIZE for an output marked insufficient, success for
\* one marked sufficient.
C14_QueriesReturnDeliveredShapes ==
    [][InsufficientShapesDelivered
        => \A index \in 0..(outputCount - 1) :
            LET shape == executionCallback.outputShapes[index + 1]
            IN /\ getOutputOperandDimensions(index)
                    => ret' = ReturnOut("getOutputOperandDimensions",
                                        SufficiencySignal(shape),
                                        << shape.dimensions >>)
               /\ getOutputOperandRank(index)
                    => ret' = ReturnOut("getOutputOperandRank",
                                        SufficiencySignal(shape),
                                        << Len(shape.dimensions) >>)]_vars

\* C14 amended: after a compute that delivered OUTPUT_INSUFFICIENT_SIZE
\* with such shapes, getOutputOperandRank on any
\* output writes the number of delivered dimensions and returns
\* OUTPUT_INSUFFICIENT_SIZE for an output marked insufficient, success for
\* one marked sufficient; getOutputOperandDimensions does the same with the
\* delivered dimensions when there is at least one, and for an output
\* with no dimensions (a scalar, or a rank still unknown) it returns
\* BAD_DATA and writes nothing.
C14_QueriesReturnRecordedShapes ==
    [][InsufficientShapesDelivered
        => \A index \in 0..(outputCount - 1) :
            LET shape == executionCallback.outputShapes[index + 1]
            IN /\ getOutputOperandDimensions(index)
                    => ret' = IF Len(shape.dimensions) = 0
                              THEN ReturnOut("getOutputOperandDimensions",
                                             "BAD_DATA", <<>>)
                              ELSE ReturnOut("getOutputOperandDimensions",
                                             SufficiencySignal(shape),
                                             << shape.dimensions >>)
               /\ getOutputOperandRank(index)
                    => ret' = ReturnOut("getOutputOperandRank",
                                        SufficiencySignal(shape),
                                        << Len(shape.dimensions) >>)]_vars

\* C14 witness: after OUTPUT_INSUFFICIENT_SIZE was delivered with the
\* walker's table, in which the first output has the single dimension 1 and
\* is marked insufficient, getOutputOperandDimensions on that output wrote
\* <<1>> and returned OUTPUT_INSUFFICIENT_SIZE.
C14_Witness ==
    /\ InsufficientShapesDelivered
    /\ executionCallback.outputShapes[1] =
          [dimensions |-> <<1>>, isSufficient |-> FALSE]
    /\ ret = ReturnOut("getOutputOperandDimensions",
                       "OUTPUT_INSUFFICIENT_SIZE", << <<1>> >>)

\* Every call with an out-of-range slot index (a bind call on an Execution
\* not started, getOutputOperandDimensions or getOutputOperandRank on a
\* finished one) returns the given code.
OutOfRangeIndexGives(code) ==
    /\ \A a \in LifecyclePointerArgs :
          /\ (~mStarted /\ a.index >= inputCount
                /\ setInput(a.index, a.type, a.buffer, a.length))
                => ret'.n = code
          /\ (~mStarted /\ a.index >= outputCount
                /\ setOutput(a.index, a.type, a.buffer, a.length))
                => ret'.n = code
    /\ \A a \in LifecyclePoolArgs :
          /\ (~mStarted /\ a.index >= inputCount
                /\ setInputFromMemory(a.index, a.type, a.memory, a.offset, a.length))
                => ret'.n = code
          /\ (~mStarted /\ a.index >= outputCount
                /\ setOutputFromMemory(a.index, a.type, a.memory, a.offset, a.length))
                => ret'.n = code
    /\ \A index \in OutputIndexes :
          (mFinished /\ index >= outputCount
            /\ (getOutputOperandDimensions(index) \/ getOutputOperandRank(index)))
            => ret'.n = code

ExplicitSingleDevice ==
    mCompilation.mExplicitDeviceList /\ mCompilation.numDevices = 1

\* setMeasureTiming(measure) succeeds and records the flag exactly when the
\* Execution is not started and has an explicit single device; every other
\* call returns the code given for its case and leaves the flag unchanged.
SetMeasureTimingGives(afterStart, withoutDevice) ==
    \A measure \in BOOLEAN :
        setMeasureTiming(measure)
        => IF ~mStarted /\ ExplicitSingleDevice
           THEN ret'.n = "NO_ERROR" /\ mMeasureTiming' = measure
           ELSE /\ mMeasureTiming' = mMeasureTiming
                /\ ret'.n = IF ExplicitSingleDevice THEN afterStart
                             ELSE withoutDevice

\* C16 as stated: setMeasureTiming succeeds and records the flag exactly
\* when the Execution is not started and was compiled against one explicitly
\* chosen device; every other call fails with BAD_DATA and leaves the flag
\* unchanged.
C16_SetMeasureTimingFailsWithBadData ==
    [][SetMeasureTimingGives("BAD_DATA", "BAD_DATA")]_vars

\* C16 amended: setMeasureTiming succeeds and records the flag exactly when
\* the Execution is not started and was compiled against one explicitly
\* chosen device; on an Execution compiled otherwise it fails with BAD_DATA,
\* started or not; on a started Execution with one explicitly chosen device
\* it fails with BAD_STATE; a failing call leaves the flag unchanged.
C16_SetMeasureTimingFailsByCase ==
    [][SetMeasureTimingGives("BAD_STATE", "BAD_DATA")]_vars

\* C16 witness: measurement was requested before the start, and a call made
\* after the start on the same Execution, compiled against one explicitly
\* chosen device, has been refused with BAD_STATE.
C16_Witness ==
    /\ ExplicitSingleDevice
    /\ mStarted
    /\ mMeasureTiming
    /\ ret = Return("setMeasureTiming", "BAD_STATE")

\* C17: on a finished Execution, getDuration writes the "not measured"
\* value and returns BAD_STATE when timing was not requested; when it was
\* requested, getDuration returns NO_ERROR and writes the recorded timing of
\* the requested kind: the "not measured" value when that timing was not
\* measured, and otherwise the recorded microseconds as nanoseconds.
C17_GetDurationOnFinished ==
    [][\A durationCode \in DurationCodes :
        (mFinished /\ getDuration(durationCode))
        => LET micro == IF durationCode = "DURATION_ON_HARDWARE"
                        THEN mTiming.timeOnDevice
                        ELSE mTiming.timeInDriver
           IN IF ~mMeasureTiming
              THEN ret' = ReturnOut("getDuration", "BAD_STATE", << UINT64_MAX >>)
              ELSE /\ ret'.n = "NO_ERROR"
                   /\ micro = UINT64_MAX => ret'.out = << UINT64_MAX >>
                   /\ (micro # UINT64_MAX /\ kNanoPerMicro * micro < 2^TimeBits)
                         => ret'.out = << kNanoPerMicro * micro >>]_vars

\* C17 witness: timing was requested, the compute succeeded on a device that
\* measured 2 microseconds in the driver, and getDuration wrote 2000.
C17_Witness ==
    /\ mFinished
    /\ mMeasureTiming
    /\ executionCallback.status = "NONE"
    /\ mTiming.timeInDriver = 2
    /\ ret = ReturnOut("getDuration", "NO_ERROR", << 2 * kNanoPerMicro >>)

\* The "not measured" case of C17 happens as well: timing was requested,
\* none was measured, and getDuration succeeded writing the "not measured"
\* value.
C17_SentinelWitness ==
    /\ mFinished
    /\ ret.op = "getDuration"
    /\ ret.out = << UINT64_MAX >>
    /\ mMeasureTiming
    /\ ret.n = "NO_ERROR"

\* Some declared input or output has never been bound.
SomeSlotUnspecified ==
    \/ \E i \in 1..Len(mInputs) : mInputs[i].state = "UNSPECIFIED"
    \/ \E i \in 1..Len(mOutputs) : mOutputs[i].state = "UNSPECIFIED"

\* C18: compute() on an Execution not started in which some declared input
\* or output is still unspecified returns BAD_DATA and starts nothing, and
\* a plan walk is only ever started with every slot specified.
C18_UnspecifiedSlotRejected ==
    [][/\ (ComputeCalled /\ ~mStarted /\ SomeSlotUnspecified)
            => /\ ret'.n = "BAD_DATA"
               /\ UNCHANGED << mStarted, walker, log >>
       /\ (walker.pc = "idle" /\ walker'.pc # "idle") => ~SomeSlotUnspecified]_vars

\* C18 witness: with the input bound and an output still unspecified,
\* compute() was refused with BAD_DATA and the Execution is not started.
C18_Witness ==
    /\ ~mStarted
    /\ computeCalls > 0
    /\ \A i \in 1..Len(mInputs) : mInputs[i].state # "UNSPECIFIED"
    /\ \E i \in 1..Len(mOutputs) : mOutputs[i].state = "UNSPECIFIED"
    /\ ret.op \in ComputeVariants
    /\ ret.n = "BAD_DATA"

\* C19: of the threads that call compute() on one Execution at the same
\* time, at most one starts a plan walk, every other one returns BAD_STATE,
\* and finish is entered at most once.
C19_AtMostOneWalk ==
    /\ Cardinality({t \in Threads : threads[t].walked}) <= 1
    /\ finishCalls <= 1
    /\ (\E t \in Threads : threads[t].walked)
          => \A u \in Threads :
                (threads[u].pc = "returned" /\ ~threads[u].walked)
                   => threads[u].n = "BAD_STATE"

\* Number of plan->next events among the first i events of the log.
NextsUpTo(i) == Cardinality({k \in LogEvents({"next"}) : k <= i})

\* C20: steps are executed in the order the plan hands them out, one at a
\* time, and the reconciliation of a step's reported shapes is complete
\* before the next step is asked for, also when the step was completed by
\* its partial fallback.  In terms of the log: the plan is asked again only
\* after every earlier request succeeded, and the k-th request hands out
\* step k; a request other than the first directly follows the successful
\* reconciliation of the step handed out before it; every execution is
\* of the step handed out last, a step is executed at most once on its
\* device and at most once by partial fallback; and a completed execution
\* is directly followed by the reconciliation of that step.
C20_StepsInOrderReconciledFirst ==
    /\ \A j \in LogEvents({"next"}) :
          /\ log[j].step \in {0, NextsUpTo(j)}
          /\ \A i \in LogEvents({"next"}) :
                i < j => (log[i].code = "NO_ERROR" /\ log[i].step = NextsUpTo(i))
          /\ j > 1 => /\ log[j - 1].ev = "reconcile"
                       /\ log[j - 1].code = "ok"
                       /\ log[j - 1].step = NextsUpTo(j) - 1
    /\ \A i \in LogEvents({"exec", "execPartial"}) :
          /\ log[i].step = NextsUpTo(i)
          /\ \A k \in LogEvents({log[i].ev}) : log[k].step = log[i].step => k = i
          /\ log[i].code \in {"NO_ERROR", "OUTPUT_INSUFFICIENT_SIZE"}
                => /\ i < Len(log)
                   /\ log[i + 1].ev = "reconcile"
                   /\ log[i + 1].step = log[i].step
    /\ (walker.pc = "next" /\ log # <<>>)
          => /\ log[Len(log)].ev = "reconcile"
             /\ log[Len(log)].code = "ok"

\* C20 witness: under a two-step plan the first step failed on its device,
\* was completed by its partial fallback and reconciled, and the second step
\* was then handed out and executed.
C20_Witness ==
    /\ Len(log) >= 8
    /\ log[2].ev = "exec" /\ log[2].step = 1
    /\ \E i \in LogEvents({"execPartial"}) :
          /\ log[i].step = 1
          /\ log[i + 1].ev = "reconcile" /\ log[i + 1].code = "ok"
          /\ log[i + 2].ev = "next" /\ log[i + 2].step = 2
          /\ log[i + 3].ev = "exec" /\ log[i + 3].step = 2
          /\ log[i + 4].ev = "reconcile"

\* Positions of the log at which plan->next failed, and at which a step
\* could not be started on its device.
PlanFailedAt == {i \in LogEvents({"next"}) : log[i].code # "NO_ERROR"}
DispatchFailedAt ==
    {i \in LogEvents({"exec"}) :
        log[i].code \notin {"NO_ERROR", "OUTPUT_INSUFFICIENT_SIZE"}}

\* The failure at position i of the log was surfaced: its mapped status was
\* delivered with no shapes and the walk ended there.
FailureSurfacedAt(i) ==
    /\ Len(log) = i + 1
    /\ log[i + 1].ev = "notify"
    /\ log[i + 1].code = convertResultCodeToErrorStatus(log[i].code)
    /\ walker.pc = "done"
    /\ executionCallback.status = convertResultCodeToErrorStatus(log[i].code)
    /\ executionCallback.outputShapes = <<>>

\* The failure at position i of the log led to the full-model fallback and
\* to nothing else: the walker is about to run it, or ran it and stopped.
FullFallbackAt(i) ==
    /\ IF Len(log) = i THEN walker.pc = "full"
       ELSE log[i + 1].ev = "full" /\ walker.pc = "done"
    /\ \A j \in LogEvents({"next", "exec", "partial"}) : j <= i

\* The failure at position i of the log led to the partial fallback of the
\* step that failed.
PartialFallbackAt(i) ==
    IF Len(log) = i THEN walker.pc = "partial"
    ELSE log[i + 1].ev = "partial" /\ log[i + 1].step = log[i].step

\* C21 as stated: a step that could not be started is handled like a
\* failure of plan->next: with fallback allowed both lead to the full-model
\* fallback and the end of the walk, with fallback disallowed both surface
\* the mapped status with no shapes and end the walk.
C21_DispatchFailureLikePlanFailure ==
    \A i \in PlanFailedAt \cup DispatchFailedAt :
        IF walker.allowFallback THEN FullFallbackAt(i) ELSE FailureSurfacedAt(i)

\* C21 amended: with fallback disallowed, a failure of plan->next and a step
\* that could not be started both surface the mapped status with no shapes
\* and end the walk; with fallback allowed, a failure of plan->next leads to
\* the full-model fallback and the end of the walk, while a step that could
\* not be started leads to the partial fallback of that step.
C21_DispatchFailureGoesToPartial ==
    /\ \A i \in PlanFailedAt :
          IF walker.allowFallback THEN FullFallbackAt(i) ELSE FailureSurfacedAt(i)
    /\ \A i \in DispatchFailedAt :
          IF walker.allowFallback THEN PartialFallbackAt(i) ELSE FailureSurfacedAt(i)

\* C21 witness: with fallback allowed the first step of a two-step plan
\* could not be started, its partial fallback ran it on the CPU, and the
\* walk went on to the second step.
C21_Witness ==
    /\ walker.allowFallback
    /\ 2 \in DispatchFailedAt
    /\ Len(log) > 2
    /\ log[3].ev = "partial"
    /\ \E j \in LogEvents({"next"}) : log[j].step = 2

\* Positions of the log at which the partial fallback was entered and the
\* plan gave no replacement executor, or one that is on the CPU device
\* already.
NoReplacementAt ==
    {i \in LogEvents({"partial"}) :
        log[i].code # "NO_ERROR" \/ log[i].dev = "cpu"}

\* C22: when the plan cannot produce a replacement executor for the failed
\* step, or the replacement is on the CPU device already, the partial
\* fallback runs no replacement and goes to the full-model fallback, and
\* the walk ends when that has delivered its result: the full-model
\* fallback is the only thing in the log after such a partial fallback, it
\* ends with the one delivery, and no step is asked for or run afterwards.
C22_NoReplacementEscalates ==
    \A i \in NoReplacementAt :
        /\ \A j \in LogEvents({"next", "exec", "partial", "execPartial",
                                "preparePartial", "reconcile"}) : j <= i
        /\ IF Len(log) = i
           THEN walker.pc = "full" /\ executionCallback.notified = 0
           ELSE /\ log[i + 1].ev = "full"
                /\ log[Len(log)].ev = "notify"
                /\ LogEvents({"notify"}) = {Len(log)}
                /\ walker.pc = "done"
                /\ executionCallback.notified = 1
                /\ executionCallback.status = log[Len(log)].code

\* C22 witness: a step on the CPU device failed, the partial fallback saw
\* that its replacement is on the CPU device, the full-model fallback ran
\* and the walk ended with its result.
C22_Witness ==
    /\ \E i \in NoReplacementAt :
          /\ log[i].code = "NO_ERROR"
          /\ log[i].dev = "cpu"
          /\ Len(log) = i + 3
          /\ log[i + 1].ev = "full"
          /\ log[i + 2].ev = "execFull"
          /\ log[i + 3].ev = "notify"
    /\ walker.pc = "done"

\* The other case of C22 happens as well: the plan produced no replacement
\* for a step on an accelerator, and the full-model fallback ran.
C22_NoExecutorWitness ==
    \E i \in NoReplacementAt :
        /\ log[i].code # "NO_ERROR"
        /\ log[i].dev = "accel"
        /\ Len(log) > i
        /\ log[i + 1].ev = "full"

\* A step in which the walker ran a step on its own device and the step
\* succeeded: the device returned success and the shapes it reported were
\* reconciled into the table.
StepSucceeded ==
    /\ walker.pc = "exec"
    /\ Len(log') > Len(log) + 1
    /\ log'[Len(log) + 1].ev = "exec"
    /\ log'[Len(log) + 1].code = "NO_ERROR"
    /\ log'[Len(log) + 2].ev = "reconcile"
    /\ log'[Len(log) + 2].code = "ok"

\* A step in which the plan reports no more steps.
PlanExhausted ==
    /\ walker.pc = "next"
    /\ Len(log') = Len(log) + 2
    /\ log'[Len(log) + 1] = Ev("next", 0, "none", "NO_ERROR")

\* The walker starts with the bound dimensions, all marked sufficient, and
\* no timing; when the plan reports no more steps it delivers success with
\* its table of shapes and its recorded timing.
StartsBoundDeliversTable ==
    /\ (walker.pc = "start" /\ walker'.pc # "start")
          => /\ walker'.timing = kNoTiming
             /\ Len(walker'.outputShapes) = outputCount
             /\ \A i \in 1..outputCount :
                   walker'.outputShapes[i] =
                       [dimensions |-> mOutputs[i].dimensions, isSufficient |-> TRUE]
    /\ PlanExhausted
          => /\ executionCallback' =
                   [notified |-> 1, status |-> "NONE",
                    outputShapes |-> walker.outputShapes, timing |-> walker.timing]
             /\ walker'.pc = "done"
             /\ mFinished'

\* C23: the walker starts from the bound output dimensions, all marked
\* sufficient, and from "not measured"; when the plan reports no more steps
\* it delivers success with its table of shapes and its recorded timing;
\* and the recorded timing is that of the most recent step that succeeded
\* on its own device: every such step records the timing its device
\* reported, and nothing else (a failed step, a step whose status the
\* failed reconciliation turned into a failure, a fallback run) changes the
\* record.
C23_TimingOfLastSuccessfulStep ==
    [][/\ StartsBoundDeliversTable
       /\ walker.pc \notin {"idle", "start"}
             => walker'.timing = IF StepSucceeded THEN mTiming'
                                 ELSE walker.timing]_vars

\* C23 witness: under a two-step plan both steps succeeded on their
\* devices, the plan then reported no more steps, and success was delivered
\* with the table, in which the first output's dimension is 2, and with the
\* timing the second step measured.
C23_Witness ==
    /\ walker.pc = "done"
    /\ Len(mPlan.steps) = 2
    /\ LogEvents({"partial", "full"}) = {}
    /\ log[Len(log)] = Ev("notify", 0, "none", "NONE")
    /\ executionCallback.status = "NONE"
    /\ executionCallback.timing = [timeOnDevice |-> 1, timeInDriver |-> 2]
    /\ mTiming = executionCallback.timing
    /\ executionCallback.outputShapes = walker.outputShapes
    /\ mOutputs[1].dimensions = <<2>>

\* The other timing case of C23 happens as well: the only step did not
\* succeed on its own device, its partial fallback completed it, the plan
\* reported no more steps, and success was delivered with "not measured".
C23_NotMeasuredWitness ==
    /\ walker.pc = "done"
    /\ LogEvents({"full"}) = {}
    /\ LogEvents({"execPartial"}) # {}
    /\ log[Len(log)] = Ev("notify", 0, "none", "NONE")
    /\ executionCallback.status = "NONE"
    /\ executionCallback.timing = kNoTiming

\* C24: mapInputsAndOutputsTrivially gives the executor input bindings,
\* output bindings and a pool table equal to the Execution's at that
\* moment, every field of every binding (state, dimensions, buffer, pool
\* index, offset, length) included, and leaves the Execution's own as they
\* were.
C24_TrivialMappingIsIdentity ==
    [][MapInputsAndOutputsTrivially
        => /\ probe'.result.mInputs = mInputs
           /\ probe'.result.mOutputs = mOutputs
           /\ probe'.result.mMemories = mMemories
           /\ \A i \in 1..Len(mOutputs) :
                 mOutputs[i].state = "MEMORY"
                    => probe'.result.mMemories[probe'.result.mOutputs[i].poolIndex + 1]
                          = mMemories[mOutputs[i].poolIndex + 1]
           /\ UNCHANGED << mInputs, mOutputs, mMemories >>]_vars

\* C24 witness: the mapping was applied to an Execution whose input is
\* bound to one pool and whose first and second output are bound to the
\* other pool and to a buffer.
C24_Witness ==
    /\ probe.op = "mapInputsAndOutputsTrivially"
    /\ Len(mMemories) = 2
    /\ mInputs[1].state = "MEMORY"
    /\ mOutputs[1].state = "MEMORY"
    /\ mOutputs[1].poolIndex # mInputs[1].poolIndex
    /\ mOutputs[2].state = "POINTER"
    /\ probe.result.mOutputs = mOutputs

\* C25: mapInputOrOutput copies a binding that is unspecified, a pointer or
\* without value unchanged and leaves the executor's pool table alone; for
\* a binding to a pool it registers the pool in the executor's table,
\* keeping the entries the table had, and changes nothing of the binding
\* but the pool index, so that the executor's table holds at the new index
\* the pool the Execution's table holds at the old one; the Execution's
\* bindings and table stay as they were.
C25_MapOneRewritesPoolIndexOnly ==
    [][MapInputOrOutput
        => LET builder == probe'.builderInputOrOutput
               executor == probe'.result.executorInputOrOutput
               before == probe'.executorMemories
               after == probe'.result.mMemories
           IN /\ builder.state # "MEMORY" => (executor = builder /\ after = before)
              /\ builder.state = "MEMORY"
                    => /\ executor = [builder EXCEPT !.poolIndex = executor.poolIndex]
                       /\ executor.poolIndex < Len(after)
                       /\ after[executor.poolIndex + 1] = mMemories[builder.poolIndex + 1]
                       /\ Len(before) <= Len(after)
                       /\ \A i \in 1..Len(before) : after[i] = before[i]
              /\ UNCHANGED << mInputs, mOutputs, mMemories >>]_vars

\* C25 witness: a binding to the pool at index 1 of the Execution's table
\* was mapped into an executor whose table was empty, where the pool is now
\* at index 0.
C25_Witness ==
    /\ probe.op = "mapInputOrOutput"
    /\ probe.builderInputOrOutput.state = "MEMORY"
    /\ probe.builderInputOrOutput.poolIndex = 1
    /\ probe.executorMemories = <<>>
    /\ probe.result.executorInputOrOutput.poolIndex = 0
    /\ probe.result.mMemories = << mMemories[2] >>

\* The other kinds of C25 are mapped as well: a binding without value.
C25_NoValueWitness ==
    /\ probe.op = "mapInputOrOutput"
    /\ probe.builderInputOrOutput.state = "HAS_NO_VALUE"
    /\ probe.executorMemories # <<>>

\* A binding call has made its check of the dimensions.
DimensionsChecked == probe.op = "checkDimensionInfo"

\* The override of such a call is one validateOperandType accepts.
OverrideValid ==
    /\ probe.newType # NullType
    /\ validateOperandType(probe.newType,
                           allowUnspecified(probe.call, probe.buffer)) = "NO_ERROR"

\* Operand and override have as many dimensions as each other, and some
\* dimension the operand fixes (non-zero) is given another non-zero value.
FixedDimensionReplaced ==
    /\ Len(probe.operand.dimensions) = Len(probe.newType.dimensions)
    /\ \E i \in 1..Len(probe.operand.dimensions) :
          /\ probe.operand.dimensions[i] # 0
          /\ probe.newType.dimensions[i] # 0
          /\ probe.newType.dimensions[i] # probe.operand.dimensions[i]

\* C26: a binding call with a type override fails its check (and returns
\* BAD_DATA) when the operand has declared dimensions and the override has
\* another number of dimensions or gives a fixed non-zero dimension another
\* non-zero value; for an operand declared with no dimensions, the number
\* of dimensions of a valid override never makes the call fail.
C26_OverrideChecked ==
    (DimensionsChecked /\ probe.newType # NullType)
    => /\ (/\ Len(probe.operand.dimensions) # 0
            /\ \/ Len(probe.newType.dimensions) # Len(probe.operand.dimensions)
               \/ FixedDimensionReplaced)
          => ~probe.result
       /\ (Len(probe.operand.dimensions) = 0 /\ OverrideValid) => probe.result

\* C26 witness: an override of two dimensions was refused for an operand of
\* one dimension, although the override is a valid type.
C26_Witness ==
    /\ DimensionsChecked
    /\ OverrideValid
    /\ probe.operand.dimensions = <<0>>
    /\ probe.newType.dimensions = << 1, 2 >>
    /\ ~probe.result

\* The other cases of C26 happen as well: a fixed dimension replaced, and
\* an operand with no dimensions overridden with two.
C26_ReplacedWitness ==
    /\ DimensionsChecked
    /\ OverrideValid
    /\ FixedDimensionReplaced
    /\ ~probe.result

C26_NoDimensionsWitness ==
    /\ DimensionsChecked
    /\ probe.operand = TensorOperand(<<>>)
    /\ probe.newType.dimensions = << 1, 2 >>
    /\ probe.result

\* A binding call without type override has checked a tensor operand whose
\* declared dimensions are not fully specified.
UnspecifiedWithoutOverride(call) ==
    /\ DimensionsChecked
    /\ probe.call = call
    /\ probe.newType = NullType
    /\ isTensorType(probe.operand.type)
    /\ tensorHasUnspecifiedDimensions(probe.operand)

\* C27 as stated: setInput with a null buffer and no type override, on a
\* tensor operand whose dimensions are not fully specified, fails its check
\* (and returns BAD_DATA).
C27_NullBufferUnspecifiedRejected ==
    (UnspecifiedWithoutOverride("setInput") /\ probe.buffer = NULL)
    => ~probe.result

\* C27 amended: setInput with no type override, on a tensor operand whose
\* dimensions are not fully specified, fails its check (and returns
\* BAD_DATA) when it is given a buffer, and passes it when the buffer is
\* null.
C27_BufferUnspecifiedRejected ==
    UnspecifiedWithoutOverride("setInput")
    => (probe.result <=> probe.buffer = NULL)

\* C27 witness: setInput with a null buffer and no override has passed the
\* check for a tensor operand with an unspecified dimension.
C27_Witness ==
    /\ UnspecifiedWithoutOverride("setInput")
    /\ probe.buffer = NULL
    /\ probe.operand.dimensions = <<0>>
    /\ probe.result

\* The other case of C27 happens as well: the same call with a buffer is
\* refused.
C27_BufferWitness ==
    /\ UnspecifiedWithoutOverride("setInput")
    /\ probe.buffer # NULL
    /\ probe.operand.dimensions = <<0>>
    /\ ~probe.result

\* C28 as stated: setInputFromMemory and setOutputFromMemory alike, with no
\* type override on a tensor operand whose dimensions are not fully
\* specified, fail their check (and return BAD_DATA).
C28_PoolUnspecifiedRejected ==
    \A call \in {"setInputFromMemory", "setOutputFromMemory"} :
        UnspecifiedWithoutOverride(call) => ~probe.result

\* C28 amended: setInputFromMemory with no type override on a tensor operand
\* whose dimensions are not fully specified fails its check (and returns
\* BAD_DATA); setOutputFromMemory with no type override passes it.
C28_PoolInputUnspecifiedRejected ==
    /\ UnspecifiedWithoutOverride("setInputFromMemory") => ~probe.result
    /\ UnspecifiedWithoutOverride("setOutputFromMemory") => probe.result

\* C28 witness: setInputFromMemory without override was refused for a
\* tensor operand with an unspecified dimension.
C28_Witness ==
    /\ UnspecifiedWithoutOverride("setInputFromMemory")
    /\ probe.operand.dimensions = << 1, 0 >>
    /\ ~probe.result

\* The other case of C28 happens as well: setOutputFromMemory passes for
\* the same operand.
C28_OutputWitness ==
    /\ UnspecifiedWithoutOverride("setOutputFromMemory")
    /\ probe.operand.dimensions = << 1, 0 >>
    /\ probe.result

\* The range of a pool-backed binding call is one the pool does not allow:
\* a hardware buffer with a non-zero offset or length, or a range that
\* ends beyond the pool.
RangeRefused(a) ==
    \/ a.memory.name = "hardware_buffer" /\ (a.offset # 0 \/ a.length # 0)
    \/ a.offset + a.length > a.memory.size

\* C29: before the execution has started, setInputFromMemory and
\* setOutputFromMemory with a range the pool does not allow return BAD_DATA
\* and leave the pool table and the bindings as they were; setInput and
\* setOutput with a length above 2^32 - 1 return BAD_DATA and leave the
\* bindings as they were.
C29_RangeAndLengthRefused ==
    [][ /\ \A a \in MapPoolArgs :
             (/\ ~mStarted
              /\ RangeRefused(a)
              /\ \/ setInputFromMemory(a.index, a.type, a.memory, a.offset, a.length)
                 \/ setOutputFromMemory(a.index, a.type, a.memory, a.offset, a.length))
             => /\ ret'.n = "BAD_DATA"
                /\ UNCHANGED << mMemories, mInputs, mOutputs >>
        /\ \A a \in MapPointerArgs :
             (/\ ~mStarted
              /\ a.length > kMaxLength
              /\ \/ setInput(a.index, a.type, a.buffer, a.length)
                 \/ setOutput(a.index, a.type, a.buffer, a.length))
             => /\ ret'.n = "BAD_DATA"
                /\ UNCHANGED << mMemories, mInputs, mOutputs >>
      ]_vars

\* C29 witness: with a pool registered and the input bound to it,
\* setOutputFromMemory has returned BAD_DATA; the only calls of
\* setOutputFromMemory that are refused in this state are those with a range
\* the pool does not allow.
C29_Witness ==
    /\ ret.op = "setOutputFromMemory"
    /\ ret.n = "BAD_DATA"
    /\ Len(mMemories) = 1
    /\ mInputs[1].state = "MEMORY"
    /\ \A a \in MapPoolArgs :
          setOutputFromMemoryCheck(a.index, a.type, a.memory, a.offset, a.length)
             = "BAD_DATA" => RangeRefused(a)
    /\ \E a \in MapPoolArgs : ~validateSize(a.memory, a.offset, a.length)

\* The pointer case of C29 happens as well: setOutput has returned BAD_DATA
\* where a call is refused for its length alone (the same call with the
\* length 2^32 - 1 is accepted).
C29_LengthWitness ==
    /\ ret.op = "setOutput"
    /\ ret.n = "BAD_DATA"
    /\ \E a \in MapPointerArgs :
          /\ a.length > kMaxLength
          /\ setOutputCheck(a.index, a.type, a.buffer, a.length) = "BAD_DATA"
          /\ setOutputCheck(a.index, a.type, a.buffer, kMaxLength) = "NO_ERROR"

\* C30: a synchronous compute, and an asynchronous one in non-threaded mode,
\* return only once the completion has been delivered: the execution is
\* finished at the return, the synchronous call returns the result code of
\* the delivered status, the asynchronous one NO_ERROR and the handle.  A
\* threaded asynchronous compute returns NO_ERROR and the handle with the
\* execution started and not yet finished.  A compute that fails its checks
\* returns their code, a null handle if it is asynchronous, and starts
\* nothing.
C30_ComputeReturns ==
    [][ /\ computeReturn
           => /\ executionCallback.notified = 1
              /\ mFinished /\ mFinished'
              /\ caller = "compute"
                    => /\ ret'.op = "compute"
                       /\ ret'.n = convertErrorStatusToResultCode(executionCallback.status)
              /\ caller = "startCompute"
                    => ret' = ReturnOut("startCompute", "NO_ERROR",
                                        << "executionCallback" >>)
        /\ \A variant \in ComputeVariants, syncExecRuntime \in BOOLEAN :
             compute(variant, syncExecRuntime)
             => /\ (computeCheck = "NO_ERROR" /\ variant = "startCompute"
                      /\ ~syncExecRuntime)
                   => /\ ret' = ReturnOut("startCompute", "NO_ERROR",
                                           << "executionCallback" >>)
                      /\ caller' = "ready"
                      /\ mStarted' /\ ~mFinished'
                /\ (computeCheck = "NO_ERROR"
                      /\ (variant # "startCompute" \/ syncExecRuntime))
                   => /\ caller' # "ready"
                      /\ UNCHANGED ret
                /\ computeCheck # "NO_ERROR"
                   => /\ ret'.n = computeCheck
                      /\ ret'.out = IF variant = "startCompute" THEN << NULL >> ELSE <<>>
                      /\ caller' = "ready"
                      /\ UNCHANGED << mStarted, mFinished, walker >>
      ]_vars

\* C30 witness: a non-threaded asynchronous compute has run the walk on the
\* calling thread and is about to return; the completion has been delivered
\* and the execution is finished.
C30_Witness ==
    /\ caller = "startCompute"
    /\ walker.pc = "done"
    /\ executionCallback.notified = 1
    /\ mFinished

\* The other cases of C30 happen as well: a synchronous compute has returned
\* the code of a failure; a threaded asynchronous compute has returned while
\* the walk has not begun; an asynchronous compute has returned a null
\* handle.
C30_SynchronousWitness ==
    /\ caller = "ready"
    /\ ret.op = "compute"
    /\ ret.n = "OP_FAILED"
    /\ mFinished
    /\ executionCallback.status = "GENERAL_FAILURE"

C30_ThreadedWitness ==
    /\ caller = "ready"
    /\ ret = ReturnOut("startCompute", "NO_ERROR", << "executionCallback" >>)
    /\ walker.pc = "start"
    /\ mStarted
    /\ ~mFinished

C30_NullHandleWitness ==
    /\ ret.op = "startCompute"
    /\ ret.n = "BAD_DATA"
    /\ ret.out = << NULL >>
    /\ ~mStarted

\* Positions of the log at which the reconciliation of a step's reported
\* shapes failed.
ReconcileFailedAt == {i \in LogEvents({"reconcile"}) : log[i].code = "failed"}

\* The walker has done, or is about to do, after position i of the log what
\* it does with the status GENERAL_FAILURE: enter the fallback named, or
\* else deliver GENERAL_FAILURE.
ClassifiedAsGeneralFailure(i, fallback) ==
    IF fallback # "none"
    THEN IF i = Len(log) THEN walker.pc = fallback
         ELSE log[i + 1].ev = fallback
    ELSE /\ i < Len(log)
         /\ log[i + 1] = Ev("notify", 0, "none", "GENERAL_FAILURE")
         /\ executionCallback.status = "GENERAL_FAILURE"

\* C31: when the reconciliation of a step's reported shapes fails, the
\* status the walker classifies is GENERAL_FAILURE whatever the device
\* reported.  After a step run on its own device the walker enters the
\* partial fallback if fallback is allowed and delivers GENERAL_FAILURE if
\* not (an OUTPUT_INSUFFICIENT_SIZE report is not delivered as such); after
\* a partial-fallback run it delivers GENERAL_FAILURE under a simple plan
\* and enters the full fallback under a compound one.
C31_FailedReconciliationIsGeneralFailure ==
    \A i \in ReconcileFailedAt :
        /\ log[i - 1].ev \in {"exec", "execPartial"}
        /\ log[i - 1].code \in {"NO_ERROR", "OUTPUT_INSUFFICIENT_SIZE"}
        /\ log[i - 1].ev = "exec"
              => ClassifiedAsGeneralFailure(i,
                     IF walker.allowFallback THEN "partial" ELSE "none")
        /\ log[i - 1].ev = "execPartial"
              => ClassifiedAsGeneralFailure(i,
                     IF isSimple(mPlan) THEN "none" ELSE "full")

\* C31 witness: a device reported OUTPUT_INSUFFICIENT_SIZE for a step run
\* on its own device, the reconciliation of its shapes failed, and
\* GENERAL_FAILURE was delivered.
C31_Witness ==
    \E i \in ReconcileFailedAt :
        /\ log[i - 1].ev = "exec"
        /\ log[i - 1].code = "OUTPUT_INSUFFICIENT_SIZE"
        /\ i < Len(log)
        /\ log[i + 1] = Ev("notify", 0, "none", "GENERAL_FAILURE")

\* The other cases of C31 happen as well: a partial-fallback run reported
\* OUTPUT_INSUFFICIENT_SIZE under a compound plan, its reconciliation
\* failed, and the walker entered the full fallback; and a step that
\* reported success was taken to the partial fallback.
C31_PartialWitness ==
    \E i \in ReconcileFailedAt :
        /\ log[i - 1].ev = "execPartial"
        /\ log[i - 1].code = "OUTPUT_INSUFFICIENT_SIZE"
        /\ i < Len(log)
        /\ log[i + 1].ev = "full"

C31_SuccessWitness ==
    \E i \in ReconcileFailedAt :
        /\ log[i - 1].ev = "exec"
        /\ log[i - 1].code = "NO_ERROR"
        /\ i < Len(log)
        /\ log[i + 1].ev = "partial"

\* The codes of PreparedModel::execute for which a completion object is
\* made.
CompletionCodes == {"NO_ERROR", "OUTPUT_INSUFFICIENT_SIZE"}

\* The events an action has appended to the log.
Appended == SubSeq(log', Len(log) + 1, Len(log'))

\* C32: StepExecutor::startCompute makes a completion object, carrying the
\* status of the device's code, the shapes and the timing the device
\* returned, exactly when the code is NO_ERROR or OUTPUT_INSUFFICIENT_SIZE;
\* for any other code it returns the code and makes none; and in every case
\* the timing the device returned has been handed to the Execution.  On the
\* walker: a step whose code is one of the two is reconciled with the
\* shapes returned (and on success its timing is kept), one with another
\* code is handled as a dispatch failure with that code and nothing is
\* reconciled; for the partial fallback's run likewise; and the full
\* fallback delivers the completion object's status, shapes and timing, or
\* else the status of the code with no shapes and no timing.
C32_StartComputeCompletion ==
    [][ \A n \in ExecuteCodes, from \in WalkShapes :
          /\ stepCompute(n, from, WalkTiming)
             => /\ mTiming' = WalkTiming
                /\ Appended[1].ev = "exec" /\ Appended[1].code = n
                /\ IF n \in CompletionCodes
                   THEN /\ Len(Appended) >= 2
                        /\ Appended[2].ev = "reconcile"
                        /\ walker'.outputShapes =
                              StepUpdateOutputShapes(~mPlan.simple,
                                  mPlan.steps[CurrentStep].indexMapping,
                                  from, walker.outputShapes).to
                        /\ (n = "NO_ERROR" /\ Appended[2].code = "ok")
                              => /\ walker'.pc = "next"
                                 /\ walker'.timing = WalkTiming
                        /\ (n = "OUTPUT_INSUFFICIENT_SIZE" /\ Appended[2].code = "ok")
                              => executionCallback'.status = "OUTPUT_INSUFFICIENT_SIZE"
                   ELSE /\ \A k \in 1..Len(Appended) : Appended[k].ev # "reconcile"
                        /\ walker'.outputShapes = walker.outputShapes
                        /\ IF walker.allowFallback
                           THEN walker'.pc = "partial" /\ Len(Appended) = 1
                           ELSE /\ Appended[2] = Ev("notify", 0, "none",
                                                    convertResultCodeToErrorStatus(n))
                                /\ executionCallback'.status =
                                      convertResultCodeToErrorStatus(n)
                                /\ executionCallback'.outputShapes = <<>>
          /\ \A planned \in FallbackResults :
                (/\ cpuFallbackPartial(planned, "NO_ERROR", n, from, WalkTiming)
                 /\ Len(Appended) >= 2)
                => /\ mTiming' = WalkTiming
                   /\ Appended[2].ev = "execPartial" /\ Appended[2].code = n
                   /\ IF n \in CompletionCodes
                      THEN /\ Len(Appended) >= 3
                           /\ Appended[3].ev = "reconcile"
                      ELSE /\ Len(Appended) = 2
                           /\ walker'.pc = "full"
                           /\ walker'.outputShapes = walker.outputShapes
          /\ cpuFallbackFull("NO_ERROR", n, from, WalkTiming)
             => /\ mTiming' = WalkTiming
                /\ executionCallback' =
                      IF n \in CompletionCodes
                      THEN [notified |-> 1,
                            status |-> convertResultCodeToErrorStatus(n),
                            outputShapes |-> from, timing |-> WalkTiming]
                      ELSE [notified |-> 1,
                            status |-> convertResultCodeToErrorStatus(n),
                            outputShapes |-> <<>>, timing |-> kNoTiming]
      ]_vars

\* C32 witness: the full fallback's run returned OUTPUT_INSUFFICIENT_SIZE
\* with shapes, and the completion delivered carries that status, those
\* shapes and the device's timing, which the Execution has received.
C32_Witness ==
    /\ Len(log) >= 2
    /\ log[Len(log) - 1] = Ev("execFull", 0, "cpu", "OUTPUT_INSUFFICIENT_SIZE")
    /\ executionCallback.status = "OUTPUT_INSUFFICIENT_SIZE"
    /\ executionCallback.outputShapes # <<>>
    /\ executionCallback.timing = WalkTiming
    /\ mTiming = WalkTiming

\* The other case of C32 happens as well: a step's device returned a code
\* other than the two, the status of that code was delivered with no
\* shapes, and the Execution has received the timing of that call.
C32_DispatchFailureWitness ==
    /\ Len(log) = 3
    /\ log[2].ev = "exec" /\ log[2].code = "UNAVAILABLE_DEVICE"
    /\ log[3] = Ev("notify", 0, "none", "DEVICE_UNAVAILABLE")
    /\ executionCallback.outputShapes = <<>>
    /\ mTiming = WalkTiming

\* At every position of the operand's dimensions, the dimension is 0 or the
\* override has the same dimension there.
OverrideAgreesAtEveryPosition ==
    \A i \in 1..Len(probe.operand.dimensions) :
        \/ probe.operand.dimensions[i] = 0
        \/ /\ i <= Len(probe.newType.dimensions)
           /\ probe.newType.dimensions[i] = probe.operand.dimensions[i]

\* The override puts 0 at a position where the operand's dimension is fixed.
FixedDimensionZeroed ==
    \E i \in 1..Len(probe.operand.dimensions) :
        /\ i <= Len(probe.newType.dimensions)
        /\ probe.operand.dimensions[i] # 0
        /\ probe.newType.dimensions[i] = 0

\* C33 as stated: an override that puts 0 where the operand's dimension is
\* fixed is refused, and the check accepts an override (a valid type)
\* exactly when, at every position, the operand's dimension is 0 or equals
\* the override's.
C33_AcceptedIffAgrees ==
    (DimensionsChecked /\ OverrideValid)
    => /\ FixedDimensionZeroed => ~probe.result
       /\ probe.result <=> OverrideAgreesAtEveryPosition

\* C33 amended: an override that puts 0 where the operand's dimension is
\* fixed is refused; for an operand with dimensions and a valid override
\* with as many dimensions, the check accepts the override exactly when,
\* at every position, the operand's dimension is 0 or equals the
\* override's; a valid override with another number of dimensions is
\* refused, and an operand with no dimensions accepts every valid override.
C33_AcceptedIffAgreesForEqualCounts ==
    (DimensionsChecked /\ probe.newType # NullType)
    => /\ FixedDimensionZeroed => ~probe.result
       /\ (/\ OverrideValid
           /\ Len(probe.operand.dimensions) # 0
           /\ Len(probe.newType.dimensions) = Len(probe.operand.dimensions))
          => (probe.result <=> OverrideAgreesAtEveryPosition)
       /\ (/\ OverrideValid
           /\ Len(probe.operand.dimensions) # 0
           /\ Len(probe.newType.dimensions) # Len(probe.operand.dimensions))
          => ~probe.result
       /\ (OverrideValid /\ Len(probe.operand.dimensions) = 0) => probe.result

\* C33 witness: an override of a call that allows unspecified dimensions put
\* 0 where the operand's dimension is fixed, and was refused.
C33_Witness ==
    /\ DimensionsChecked
    /\ OverrideValid
    /\ probe.operand.dimensions = << 1, 2 >>
    /\ probe.newType.dimensions = << 1, 0 >>
    /\ ~probe.result

\* The accepting case of C33 happens as well: the override fixes the
\* dimension the operand leaves unspecified.
C33_AcceptedWitness ==
    /\ DimensionsChecked
    /\ probe.operand.dimensions = << 1, 0 >>
    /\ probe.newType.dimensions = << 1, 2 >>
    /\ probe.result

\* C34: on a finished Execution with timing requested, getDuration writes
\* exactly 1000 times the recorded microsecond value, not reduced to the
\* width of the timing values, whenever the recorded value is not the "not
\* measured" value, and writes the "not measured" value exactly when the
\* recorded value is that value.
C34_GetDurationExact ==
    [][\A durationCode \in DurationCodes :
        (mFinished /\ mMeasureTiming /\ getDuration(durationCode))
        => LET micro == IF durationCode = "DURATION_ON_HARDWARE"
                        THEN mTiming.timeOnDevice
                        ELSE mTiming.timeInDriver
           IN /\ ret'.n = "NO_ERROR"
              /\ micro # UINT64_MAX => ret'.out = << kNanoPerMicro * micro >>
              /\ ret'.out = << UINT64_MAX >> <=> micro = UINT64_MAX]_vars

\* C35: the check of the lifecycle state comes before the check of the
\* index: a binding call with an index out of range on an Execution that
\* has started (finished or not) returns BAD_STATE, and so does
\* getOutputOperandDimensions or getOutputOperandRank with an index out of
\* range on an Execution that has not finished.
C35_StateCheckedBeforeIndex ==
    [][ /\ \A a \in LifecyclePointerArgs :
             /\ (mStarted /\ a.index >= inputCount
                   /\ setInput(a.index, a.type, a.buffer, a.length))
                   => ret'.n = "BAD_STATE"
             /\ (mStarted /\ a.index >= outputCount
                   /\ setOutput(a.index, a.type, a.buffer, a.length))
                   => ret'.n = "BAD_STATE"
        /\ \A a \in LifecyclePoolArgs :
             /\ (mStarted /\ a.index >= inputCount
                   /\ setInputFromMemory(a.index, a.type, a.memory, a.offset, a.length))
                   => ret'.n = "BAD_STATE"
             /\ (mStarted /\ a.index >= outputCount
                   /\ setOutputFromMemory(a.index, a.type, a.memory, a.offset, a.length))
                   => ret'.n = "BAD_STATE"
        /\ \A index \in OutputIndexes :
             (~mFinished /\ index >= outputCount
               /\ (getOutputOperandDimensions(index) \/ getOutputOperandRank(index)))
               => ret'.n = "BAD_STATE"
      ]_vars

\* C35 witness: on a finished Execution setInput has returned BAD_STATE, and
\* in that state the setInput calls with an index out of range are among
\* those that are answered BAD_STATE.
C35_Witness ==
    /\ mStarted
    /\ mFinished
    /\ ret = Return("setInput", "BAD_STATE")
    /\ \E a \in LifecyclePointerArgs :
          /\ a.index >= inputCount
          /\ setInputCheck(a.index, a.type, a.buffer, a.length) = "BAD_STATE"

\* The query case of C35 happens as well: before the Execution was started
\* an output query returned BAD_STATE.
C35_QueryWitness ==
    /\ ~mStarted
    /\ ret.op \in {"getOutputOperandDimensions", "getOutputOperandRank"}
    /\ ret.n = "BAD_STATE"

\* C36: a compute() refused with BAD_DATA for an unspecified slot leaves the
\* Execution not started, leaves every binding, the pool table and the
\* settings as they were, and delivers no completion.  Afterwards (a
\* compute() was called and the Execution is still not started) no binding
\* call is answered BAD_STATE, and a compute() with every slot specified is
\* accepted.
C36_RefusedComputeChangesNothing ==
    [][ /\ \A variant \in ComputeVariants, syncExecRuntime \in BOOLEAN :
             /\ (compute(variant, syncExecRuntime) /\ ~mStarted /\ SomeSlotUnspecified)
                => /\ ret'.n = "BAD_DATA"
                   /\ ~mStarted' /\ ~mFinished'
                   /\ UNCHANGED << mInputs, mOutputs, mMemories, mMeasureTiming,
                                   mTiming, walker, executionCallback, log,
                                   finishCalls, caller >>
             /\ (compute(variant, syncExecRuntime) /\ computeCalls > 0
                   /\ ~mStarted /\ ~SomeSlotUnspecified)
                => /\ mStarted'
                   /\ walker'.pc = "start"
                   /\ ret'.n = "NO_ERROR" \/ caller' # "ready"
        /\ (BindCalled /\ computeCalls > 0 /\ ~mStarted) => ret'.n # "BAD_STATE"
      ]_vars

\* C36 witness: after a compute() was refused (the Execution had not
\* started when the second one was called), the slots were bound and the
\* second compute() was accepted: it has started the walk and returned the
\* handle.
C36_Witness ==
    /\ computeCalls = 2
    /\ caller = "ready"
    /\ ret = ReturnOut("startCompute", "NO_ERROR", << "executionCallback" >>)
    /\ mStarted
    /\ walker.pc = "start"

\* The refusal of C36 itself: compute() has returned BAD_DATA with some
\* slots bound, a pool registered, the Execution not started and nothing
\* delivered.
C36_RefusedWitness ==
    /\ ret.op \in ComputeVariants
    /\ ret.n = "BAD_DATA"
    /\ ~mStarted
    /\ mInputs[1].state = "MEMORY"
    /\ mMemories # <<>>
    /\ executionCallback.notified = 0

\* The bindings of all slots other than slot index (0-based) of a binding
\* vector are the same in old and new.
OtherSlotsUnchanged(old, new, index) ==
    /\ Len(new) = Len(old)
    /\ \A j \in 1..Len(old) : j # index + 1 => new[j] = old[j]

\* The pool table is as it was or has one pool appended.
PoolTableExtended ==
    \/ mMemories' = mMemories
    \/ /\ Len(mMemories') = Len(mMemories) + 1
       /\ SubSeq(mMemories', 1, Len(mMemories)) = mMemories

\* C37: a binding call changes at most the binding of the slot it
\* addresses, and on the pool path may append to the pool table; a binding
\* call that is refused changes no binding and leaves the pool table as it
\* was; and no binding call changes the lifecycle state.
C37_BindFrame ==
    [][ /\ \A a \in LifecyclePointerArgs :
             /\ setInput(a.index, a.type, a.buffer, a.length)
                => /\ OtherSlotsUnchanged(mInputs, mInputs', a.index)
                   /\ UNCHANGED << mOutputs, mMemories >>
             /\ setOutput(a.index, a.type, a.buffer, a.length)
                => /\ OtherSlotsUnchanged(mOutputs, mOutputs', a.index)
                   /\ UNCHANGED << mInputs, mMemories >>
        /\ \A a \in LifecyclePoolArgs :
             /\ setInputFromMemory(a.index, a.type, a.memory, a.offset, a.length)
                => /\ OtherSlotsUnchanged(mInputs, mInputs', a.index)
                   /\ UNCHANGED mOutputs
                   /\ PoolTableExtended
             /\ setOutputFromMemory(a.index, a.type, a.memory, a.offset, a.length)
                => /\ OtherSlotsUnchanged(mOutputs, mOutputs', a.index)
                   /\ UNCHANGED mInputs
                   /\ PoolTableExtended
        /\ BindCalled
             => /\ UNCHANGED << mStarted, mFinished >>
                /\ ret'.n # "NO_ERROR" => UNCHANGED << mInputs, mOutputs, mMemories >>
      ]_vars

\* C37 witness: with output 0 bound to a range of a registered pool,
\* setOutputFromMemory was refused before the Execution started, for the
\* range it named (in this state the index and the dimensions of every such
\* call for slot 0 pass).
C37_Witness ==
    /\ ~mStarted
    /\ ret = Return("setOutputFromMemory", "BAD_DATA")
    /\ mOutputs[1].state = "MEMORY"
    /\ Len(mMemories) = 1
    /\ \E a \in LifecyclePoolArgs :
          /\ a.index = 0
          /\ RangeRefused(a)
          /\ setOutputFromMemoryCheck(a.index, a.type, a.memory, a.offset, a.length)
                = "BAD_DATA"

\* The accepting case of C37 happens as well: output 1 was bound by pointer
\* while output 0 stays bound to the pool.
C37_AcceptedWitness ==
    /\ ret = Return("setOutput", "NO_ERROR")
    /\ mOutputs[1].state = "MEMORY"
    /\ mOutputs[2].state = "POINTER"
    /\ Len(mMemories) = 1

\* C38: reconciliation is all or nothing: when
\* StepExecutor::updateOutputShapes fails, the walker's shape table is as
\* it was before the call, and when ExecutionBuilder::updateOutputShapes
\* fails, the dimensions and sufficiency marks of the bindings are as they
\* were.
C38_ReconciliationAllOrNothing ==
    /\ (probe.op = "StepExecutor::updateOutputShapes" /\ ~probe.result.ok)
          => probe.result.to = probe.to
    /\ (probe.op = "ExecutionBuilder::updateOutputShapes" /\ ~probe.ok)
          => probe.result = probe.outputs

\* C39: the full-model fallback delivers exactly what its own run on the CPU
\* device produced: the status of the run's code with the shapes and the
\* timing the run returned; or, when the run could not be started
\* (prepareModel failed, or the run's code is neither NO_ERROR nor
\* OUTPUT_INSUFFICIENT_SIZE), the status of that code with no shapes and no
\* timing.  The walker's shape table is neither delivered nor changed.
C39_FullFallbackDeliversItsRun ==
    [][ \A prepared \in FallbackResults, n \in ExecuteCodes, from \in WalkShapes :
          cpuFallbackFull(prepared, n, from, WalkTiming)
          => /\ executionCallback.notified = 0
             /\ executionCallback' =
                   IF prepared # "NO_ERROR"
                   THEN [notified |-> 1,
                         status |-> convertResultCodeToErrorStatus(prepared),
                         outputShapes |-> <<>>, timing |-> kNoTiming]
                   ELSE IF n \notin CompletionCodes
                   THEN [notified |-> 1,
                         status |-> convertResultCodeToErrorStatus(n),
                         outputShapes |-> <<>>, timing |-> kNoTiming]
                   ELSE [notified |-> 1,
                         status |-> convertResultCodeToErrorStatus(n),
                         outputShapes |-> from, timing |-> WalkTiming]
             /\ walker'.outputShapes = walker.outputShapes
             /\ walker'.pc = "done"
             /\ mFinished'
      ]_vars

\* C39 witness: under a compound plan a step had refined the first output's
\* shape in the walker's table to dimension 2; the compute then ended
\* through the full fallback, whose run succeeded and returned no shapes:
\* no shapes were delivered, and the Execution's first output still has the
\* dimension it was bound with.
C39_Witness ==
    /\ ~mPlan.simple
    /\ Len(log) >= 2
    /\ log[Len(log) - 1] = Ev("execFull", 0, "cpu", "NO_ERROR")
    /\ executionCallback.status = "NONE"
    /\ executionCallback.outputShapes = <<>>
    /\ executionCallback.timing = WalkTiming
    /\ walker.outputShapes[1].dimensions = <<2>>
    /\ mOutputs[1].dimensions = <<0>>
    /\ mFinished

\* The other case of C39 happens as well: the full fallback could not
\* prepare the model and delivered the status of that failure with no
\* shapes and no timing.
C39_NotStartedWitness ==
    /\ Len(log) >= 2
    /\ log[Len(log) - 1] = Ev("prepareFull", 0, "cpu", "OP_FAILED")
    /\ executionCallback.status = "GENERAL_FAILURE"
    /\ executionCallback.outputShapes = <<>>
    /\ executionCallback.timing = kNoTiming
    /\ mFinished

\* C40: once compute() has passed its checks and started the Execution, the
\* Execution eventually is Finished with a completion delivered (NONE or an
\* error status), provided the walker keeps running: the plan has finitely
\* many steps and every plan and device call returns.
C40_StartedLeadsToFinished ==
    mStarted ~> (mFinished /\ executionCallback.notified = 1
                           /\ executionCallback.status \in
                                { convertResultCodeToErrorStatus(n) :
                                    n \in ExecuteCodes })

\* C40 witness: a failure path has ended in Finished: the plan failed to
\* hand out the second step with fallback not allowed, and the Execution
\* is Finished with GENERAL_FAILURE.
C40_Witness ==
    /\ mStarted
    /\ mFinished
    /\ ~walker.allowFallback
    /\ Len(log) >= 2
    /\ log[Len(log) - 1] = Ev("next", 0, "none", "OP_FAILED")
    /\ log[Len(log)] = Ev("notify", 0, "none", "GENERAL_FAILURE")
    /\ \E i \in 1..Len(log) : log[i].ev = "reconcile" /\ log[i].code = "ok"
    /\ executionCallback.status = "GENERAL_FAILURE"

\* The success path of C40 happens as well: compute() started a walk whose
\* steps all ran, and the Execution is Finished with NONE.
C40_SuccessWitness ==
    /\ mStarted
    /\ mFinished
    /\ executionCallback.status = "NONE"
    /\ walker.nextStepIndex = Len(mPlan.steps)
    /\ log[Len(log)] = Ev("notify", 0, "none", "NONE")

====
